---- MODULE Spec2Model ----
(***************************************************************************)
(* The visitor-counter handlers of the talk, as state machines.            *)
(*                                                                         *)
(*   Spec        stepn/x.go: handleRoot (atomic.AddInt64 on visitors),     *)
(*               served concurrently for several callers, and handlePost   *)
(*               (sha1 of the body through a pooled buffer) as the         *)
(*               benchmark calls it.                                       *)
(*   SpecServer  stepn/x.go as main() serves it: handleRoot only.          *)
(*   SpecDemo    demo/demo.go: handleHi with the plain `visitors++` and    *)
(*               the separate read of visitors in fmt.Sprint(visitors).    *)
(*   SpecBench   benchpar/x_test.go: the bodies handed to bench (mu.Lock,  *)
(*               n++, mu.Unlock in three orders, atomic.AddInt64) and the  *)
(*               README's increments that return the number they produce.  *)
(*   SpecColorRx the three ways the talk matches the color parameter.      *)
(*   SpecRecorder the *_Recorder tests: one goroutine calling stepn's      *)
(*               handleRoot, demo's handleHi or step0's handleRoot with a  *)
(*               request and a fresh recorder.                             *)
(*   SpecPool    stepn/x.go: handlePost called concurrently, for the pool. *)
(*   SpecPut     stepn/x_test.go BenchmarkPut: handlePost one chunk of     *)
(*               io.CopyBuffer at a time, the buffer's contents kept.      *)
(*   SpecReuse   SpecPut's handlePost, BenchmarkSyncPool's handler and the *)
(*               README's pooled handler, each over its reused buffers.    *)
(*   SpecNeverEnding  stepn/x_test.go: neverEnding.Read on one slice.      *)
(*   SpecWide    stepn/x.go: visitors as a full int64, near its carries.   *)
(*   SpecBenchHi README: BenchmarkHi reusing one recorder through reset.   *)
(*                                                                         *)
(* A caller is a client goroutine (the goroutines of the *_Parallel tests) *)
(* that issues one request after another; each request is served by one    *)
(* invocation of a handler, whose steps interleave with the steps of the   *)
(* invocations serving the other callers.                                  *)
(***************************************************************************)
EXTENDS Integers, Sequences, FiniteSets, TLC

\* ------------------------------------------------------------------ bounds
NumCallers == 2
MaxVisitors == 4
MaxBufs == 1

Callers == 1..NumCallers

\* handlePost is not registered with the server: BenchmarkPut calls it, from one
\* goroutine, one request after another
PutCallers == {1}

\* ------------------------------------------------------------ request data
Methods == {"GET", "HEAD", "PUT"}
Digits == {"0", "1", "2", "3", "4", "5", "6", "7", "8", "9"}
WordChars == Digits \cup {"x", "_"}
\* a query parameter: absent from the URL, or present with a (possibly empty) value
NoValue == [present |-> FALSE, value |-> <<>>]

Param(s) == [present |-> TRUE, value |-> s]

\* the id parameter of the query: absent, empty, digits, and not only digits
IdParams == {NoValue, Param(<<>>), Param(<<"7">>), Param(<<"x">>), Param(<<"7", "x">>)}

\* r.FormValue(key): the empty string when the parameter is absent
FormValue(v) == IF v.present THEN v.value ELSE <<>>

\* the pattern `^\d+$` in place of `^\d*$`: at least one digit
rxOptionalIDNonEmpty(s) == Len(s) > 0 /\ \A i \in 1..Len(s) : s[i] \in Digits

\* rxOptionalID = regexp.MustCompile(`^\d*$`): only digits from start to end of text
rxOptionalID(s) == \A i \in 1..Len(s) : s[i] \in Digits

\* the color parameter of the query
ColorParams == {NoValue, Param(<<>>), Param(<<"x">>), Param(<<";">>)}

\* a request body: the bytes it delivers, then EOF, or a read error when fail
NoBody == [bytes |-> <<>>, fail |-> FALSE]
Bodies == {[bytes |-> s, fail |-> f] : s \in {<<>>, <<"a">>}, f \in BOOLEAN}

\* the pattern `\w*$` in place of `^\w*$`: some end of the text is word characters
colorRxUnanchored(s) ==
  \E i \in 1..Len(s) + 1 : \A k \in i..Len(s) : s[k] \in WordChars

\* colorRx = regexp.MustCompile(`^\w*$`): only word characters from start to end of text
colorRx(s) == \A i \in 1..Len(s) : s[i] \in WordChars

\* r.Method != "GET" && r.Method != "HEAD"
BadMethodRoot(m) == m # "GET" /\ m # "HEAD"

\* r.Method != "PUT"
BadMethodPost(m) == m # "PUT"

\* ---------------------------------------------------------------- counter
\* atomic.AddInt64(addr, delta): the new value, stored and returned in one step
AddInt64Lost(old, delta) == old
AddInt64Double(old, delta) == old + delta + delta
AddInt64Down(old, delta) == IF old >= 2 THEN old - delta ELSE old + delta
AddInt64(old, delta) == old + delta

\* --------------------------------------------------------------- responses
DigitOf(d) == CASE d = 0 -> "0" [] d = 1 -> "1" [] d = 2 -> "2" [] d = 3 -> "3"
                [] d = 4 -> "4" [] d = 5 -> "5" [] d = 6 -> "6" [] d = 7 -> "7"
                [] d = 8 -> "8" [] d = 9 -> "9"

ValueOf(ch) == CASE ch = "0" -> 0 [] ch = "1" -> 1 [] ch = "2" -> 2 [] ch = "3" -> 3
                 [] ch = "4" -> 4 [] ch = "5" -> 5 [] ch = "6" -> 6 [] ch = "7" -> 7
                 [] ch = "8" -> 8 [] ch = "9" -> 9

\* the %d verb: decimal digits, most significant first, "-" in front of a negative
RECURSIVE FormatNat(_)
FormatNat(k) == IF k < 10 THEN <<DigitOf(k)>> ELSE Append(FormatNat(k \div 10), DigitOf(k % 10))

FormatInt(k) == IF k < 0 THEN <<"-">> \o FormatNat(0 - k) ELSE FormatNat(k)

\* what a client reads back from the decimal text
RECURSIVE ParseNat(_)
ParseNat(s) == IF s = <<>> THEN 0 ELSE 10 * ParseNat(SubSeq(s, 1, Len(s) - 1)) + ValueOf(s[Len(s)])

ParseInt(s) == IF s # <<>> /\ s[1] = "-" THEN 0 - ParseNat(Tail(s)) ELSE ParseNat(s)

RootGreeting == "<html><h1>Welcome!</h1>You are visitor number "
HiGreeting == "'>Welcome!</h1>You are visitor number "
Root0Greeting == "<h1>Welcome!</h1>You are visitor number "

NoResponse == [code |-> 0, ctype |-> "", body |-> <<>>]

\* http.Error(w, msg, code)
HttpError(msg, code) == [code |-> code, ctype |-> "text/plain; charset=utf-8", body |-> <<msg>>]

\* fmt.Fprintf(w, "<html><h1>Welcome!</h1>You are visitor number %d!", visitNum)
FprintfRoot(num) == [code |-> 200, ctype |-> "", body |-> <<RootGreeting>> \o FormatInt(num) \o <<"!">>]

\* w.Header().Set("Content-Type", ...); w.Write([]byte("<h1 style='color: " + color +
\* "'>Welcome!</h1>You are visitor number " + fmt.Sprint(visitors) + "!"))
WriteHi(color, num) ==
  [code |-> 200, ctype |-> "text/html; charset=utf-8",
   body |-> <<"<h1 style='color: ">> \o color \o <<HiGreeting>> \o FormatInt(num) \o <<"!">>]

\* the greeting of step0 written without the Content-Type header being set
WriteRoot0NoType(num) ==
  [code |-> 200, ctype |-> "", body |-> <<Root0Greeting>> \o FormatInt(num) \o <<"!">>]

\* step0: w.Header().Set("Content-Type", ...); w.Write([]byte("<h1>Welcome!</h1>You are
\* visitor number " + fmt.Sprint(visitors) + "!"))
WriteRoot0(num) ==
  [code |-> 200, ctype |-> "text/html; charset=utf-8",
   body |-> <<Root0Greeting>> \o FormatInt(num) \o <<"!">>]

\* sha1 of a byte string, taken as collision free
Sha1(bytes) == <<"sha1", bytes>>

\* fmt.Fprintf(w, "sha1 = %x in %d bytes", s1.Sum((*bufp)[:0]), n)
FprintfPost(digest, size) ==
  [code |-> 200, ctype |-> "", body |-> <<"sha1 = ", digest, " in ">> \o FormatInt(size) \o <<" bytes">>]

\* where the greeting text ends in a body, 0 when the body has no greeting
GreetingAt(body) ==
  LET at == {i \in 1..Len(body) :
              body[i] = RootGreeting \/ body[i] = HiGreeting \/ body[i] = Root0Greeting}
  IN  IF at = {} THEN 0 ELSE CHOOSE i \in at : TRUE

IsGreeting(r) == r.code = 200 /\ GreetingAt(r.body) > 0

\* the visitor number a client reads from a greeting
NumberIn(r) == ParseInt(SubSeq(r.body, GreetingAt(r.body) + 1, Len(r.body) - 1))

NoRequest == [method |-> "", id |-> NoValue, color |-> NoValue, body |-> NoBody]
RootRequest(m, id) == [method |-> m, id |-> id, color |-> NoValue, body |-> NoBody]
PostRequest(m, body) == [method |-> m, id |-> NoValue, color |-> NoValue, body |-> body]
HiRequest(color) == [method |-> "GET", id |-> NoValue, color |-> color, body |-> NoBody]

\* the three ways the talk matches the color, none of them asked yet
Matchers == {"colorRx", "MatchString", "README"}
NoMatches == [m \in Matchers |-> ""]

NoBuf == 0

\* the size of a pooled buffer, 32<<10 in the code, and a byte of a buffer that
\* make has zeroed; a byte of a buffer is kept as a one-element tuple
BufSize == 2
Zero == <<"nul">>

\* neverEnding.Read has not returned
NoRead == [b |-> "", n |-> 0 - 1, err |-> ""]

\* no recorder has been made
NoRecorder ==
  [Code |-> 0 - 1, HeaderMap |-> {}, Body |-> <<>>, Flushed |-> FALSE, wroteHeader |-> FALSE,
   HeaderMapAt |-> 0, BodyAt |-> 0, at |-> ""]
NotLoaded == 0 - 1
NoCopy == [n |-> 0, err |-> FALSE]
NoHash == <<>>

RootRequests == {RootRequest(m, id) : m \in Methods, id \in IdParams}
PostRequests == {PostRequest(m, body) : m \in Methods, body \in Bodies}
HiRequests == {HiRequest(color) : color \in ColorParams}

VARIABLES
  visitors,   \* var visitors int64 (stepn), var visitors int (demo)
  pc,         \* pc[c]: where the handler invocation serving caller c stands
  req,        \* req[c]: the request r of that invocation, while the handler still reads it
  visitNum,   \* visitNum[c]: the local visitNum of handleRoot
  now,        \* now[c]: the value `visitors++` of c's invocation has loaded
  resp,       \* resp[c]: what has been written to w for c's latest request
  got,        \* got[c]: the visitor numbers c has read from its responses, in order
  bufPool,    \* var bufPool sync.Pool: the buffers put back and not taken again
  allocated,  \* number of buffers bufPool.New has made
  bufp,       \* bufp[c]: the buffer handlePost holds, NoBuf when none
  s1,         \* s1[c]: the bytes written to the hash s1 of handlePost
  copied,     \* copied[c]: n and err of io.CopyBuffer
  raced,      \* the race detector's finding: a data race on visitors has happened
  treq,       \* the request a *_Recorder test has built and hands to the handler
  matched,    \* matched[m]: what matcher m has answered for the color of treq, "" before
  handler,    \* the handler the *_Recorder test calls with treq
  mem,        \* mem[b]: the bytes of pooled buffer b, the *[]byte that bufPool.New made
  p,          \* the slice p handed to neverEnding.Read
  rd,         \* what neverEnding.Read has returned for p: n and err
  wide,       \* a 64-bit counter, bit by bit, most significant bit first
  rw,         \* the *httptest.ResponseRecorder of BenchmarkHi
  fn,         \* benchpar: the body the running benchmark hands to bench
  mu,         \* var mu sync.Mutex: 0 when unlocked, else the goroutine whose Lock locked it
  n,          \* var n int64 of benchpar (visitors.n of the talk's snippets)
  bpc,        \* bpc[g]: the statement of the body goroutine g executes next, 0 between calls
  tmp,        \* tmp[g]: what g has read of n: the load of n++, the operand of return
  defers,     \* defers[g]: the calls g's invocation has deferred
  ret,        \* ret[g]: the numbers the invocations of g have returned, in order
  iters,      \* the iterations pb.Next has granted so far
  fatal       \* "fatal error: sync: unlock of unlocked mutex" has been raised

serverVars == <<visitors, pc, req, visitNum, now, resp, got, bufPool, allocated, bufp, s1, copied, raced>>
unitVars == <<mem, p, rd, wide, rw>>
testVars == <<treq, matched, handler, unitVars>>
benchVars == <<fn, mu, n, bpc, tmp, defers, ret, iters, fatal>>
vars == <<visitors, pc, req, visitNum, now, resp, got, bufPool, allocated, bufp, s1, copied, raced,
          treq, matched, handler, mem, p, rd, wide, rw, fn, mu, n, bpc, tmp, defers, ret, iters, fatal>>

\* how the step a handler takes next from a position accesses visitors
AccessOf(label) ==
  CASE label = "add" -> "atomic"
    [] label = "hi_load" -> "read"
    [] label = "hi_store" -> "write"
    [] label = "hi_write" -> "read"
    [] label = "r0_load" -> "read"
    [] label = "r0_store" -> "write"
    [] label = "r0_write" -> "read"
    [] OTHER -> "none"

\* two accesses conflict when at least one is a plain (unsynchronized) access
\* and at least one of them writes
Conflict(a, b) ==
  /\ a # "none" /\ b # "none"
  /\ a \in {"read", "write"} \/ b \in {"read", "write"}
  /\ a \in {"write", "atomic"} \/ b \in {"write", "atomic"}

\* two invocations are about to make conflicting accesses, in either order
DataRace == \E c, d \in Callers : c # d /\ Conflict(AccessOf(pc[c]), AccessOf(pc[d]))

\* the race detector (go test -race) keeps what it has found
Detect == raced' = (raced \/ DataRace')

rootVars == <<visitors, visitNum, now, got>>
postVars == <<bufPool, allocated, bufp, s1, copied>>

\* the requests that have passed the validation of handleRoot or handleHi:
\* those answered with a number and those on their way to the increment
Counted ==
  LET sum[k \in 0..NumCallers] ==
        IF k = 0 THEN 0
        ELSE sum[k - 1] + Len(got[k]) + (IF pc[k] \in {"idle", "get", "copy", "sum"} THEN 0 ELSE 1)
  IN  sum[NumCallers]

\* the pooled buffers are as make([]byte, BufSize) leaves them, no Read has
\* been called, and there is neither a wide counter nor a recorder
UnitsAtRest ==
  /\ mem = [b \in 1..MaxBufs |-> [i \in 1..BufSize |-> Zero]]
  /\ p = <<>>
  /\ rd = NoRead
  /\ wide = <<>>
  /\ rw = NoRecorder

\* no benchmark of benchpar is running
NoBenchmark ==
  /\ fn = "none"
  /\ mu = 0
  /\ n = 0
  /\ bpc = [g \in Callers |-> 0]
  /\ tmp = [g \in Callers |-> NotLoaded]
  /\ defers = [g \in Callers |-> <<>>]
  /\ ret = [g \in Callers |-> <<>>]
  /\ iters = 0
  /\ fatal = FALSE

\* the counter starting at 1 instead of 0
InitFromOne ==
  /\ visitors = 1
  /\ pc = [c \in Callers |-> "idle"]
  /\ req = [c \in Callers |-> NoRequest]
  /\ visitNum = [c \in Callers |-> 0]
  /\ now = [c \in Callers |-> NotLoaded]
  /\ resp = [c \in Callers |-> NoResponse]
  /\ got = [c \in Callers |-> <<>>]
  /\ bufPool = {}
  /\ allocated = 0
  /\ bufp = [c \in Callers |-> NoBuf]
  /\ s1 = [c \in Callers |-> NoHash]
  /\ copied = [c \in Callers |-> NoCopy]
  /\ raced = FALSE
  /\ treq = NoRequest
  /\ matched = NoMatches
  /\ handler = ""
  /\ UnitsAtRest
  /\ NoBenchmark

Init ==
  /\ visitors = 0
  /\ pc = [c \in Callers |-> "idle"]
  /\ req = [c \in Callers |-> NoRequest]
  /\ visitNum = [c \in Callers |-> 0]
  /\ now = [c \in Callers |-> NotLoaded]
  /\ resp = [c \in Callers |-> NoResponse]
  /\ got = [c \in Callers |-> <<>>]
  /\ bufPool = {}
  /\ allocated = 0
  /\ bufp = [c \in Callers |-> NoBuf]
  /\ s1 = [c \in Callers |-> NoHash]
  /\ copied = [c \in Callers |-> NoCopy]
  /\ raced = FALSE
  /\ treq = NoRequest
  /\ matched = NoMatches
  /\ handler = ""
  /\ UnitsAtRest
  /\ NoBenchmark

\* ------------------------------------------------------- stepn: handleRoot
\* handleRoot with the increment placed before the id check
HandleRootEarly(c, r) ==
  /\ pc[c] = "idle"
  /\ Counted < MaxVisitors
  /\ IF BadMethodRoot(r.method)
       THEN /\ resp' = [resp EXCEPT ![c] = HttpError("Bad method.", 400)]
            /\ UNCHANGED <<pc, visitors, visitNum>>
       ELSE IF ~rxOptionalID(FormValue(r.id))
       THEN /\ visitors' = AddInt64(visitors, 1)
            /\ resp' = [resp EXCEPT ![c] = HttpError("Optional numeric id is invalid", 400)]
            /\ UNCHANGED <<pc, visitNum>>
       ELSE /\ visitors' = AddInt64(visitors, 1)
            /\ visitNum' = [visitNum EXCEPT ![c] = AddInt64(visitors, 1)]
            /\ resp' = [resp EXCEPT ![c] = NoResponse]
            /\ pc' = [pc EXCEPT ![c] = "write"]
  /\ UNCHANGED <<req, now, got>>
  /\ UNCHANGED postVars
  /\ UNCHANGED <<testVars, benchVars>>
  /\ Detect

\* handleRoot with the id checked before the method
HandleRootIdFirst(c, r) ==
  /\ pc[c] = "idle"
  /\ Counted < MaxVisitors
  /\ IF ~rxOptionalID(FormValue(r.id))
       THEN /\ resp' = [resp EXCEPT ![c] = HttpError("Optional numeric id is invalid", 400)]
            /\ pc' = pc
       ELSE IF BadMethodRoot(r.method)
       THEN /\ resp' = [resp EXCEPT ![c] = HttpError("Bad method.", 400)]
            /\ pc' = pc
       ELSE /\ resp' = [resp EXCEPT ![c] = NoResponse]
            /\ pc' = [pc EXCEPT ![c] = "add"]
  /\ UNCHANGED req
  /\ UNCHANGED rootVars
  /\ UNCHANGED postVars
  /\ UNCHANGED <<testVars, benchVars>>
  /\ Detect

\* caller c sends request r and the server calls handleRoot with an empty
\* response: the two validations and their early returns, up to the increment
HandleRoot(c, r) ==
  /\ pc[c] = "idle"
  /\ Counted < MaxVisitors
  /\ IF BadMethodRoot(r.method)
       THEN /\ resp' = [resp EXCEPT ![c] = HttpError("Bad method.", 400)]
            /\ pc' = pc
       ELSE IF ~rxOptionalID(FormValue(r.id))
       THEN /\ resp' = [resp EXCEPT ![c] = HttpError("Optional numeric id is invalid", 400)]
            /\ pc' = pc
       ELSE /\ resp' = [resp EXCEPT ![c] = NoResponse]
            /\ pc' = [pc EXCEPT ![c] = "add"]
  /\ UNCHANGED req
  /\ UNCHANGED rootVars
  /\ UNCHANGED postVars
  /\ UNCHANGED <<testVars, benchVars>>
  /\ Detect

\* the increment written as the plain `visitors++; visitNum := visitors` of the
\* starting program: load, then store, other invocations in between
HandleRootAddRacy(c) ==
  /\ pc[c] = "add"
  /\ IF now[c] = NotLoaded
       THEN /\ now' = [now EXCEPT ![c] = visitors]
            /\ UNCHANGED <<visitors, visitNum, pc>>
       ELSE /\ visitors' = now[c] + 1
            /\ visitNum' = [visitNum EXCEPT ![c] = now[c] + 1]
            /\ now' = [now EXCEPT ![c] = NotLoaded]
            /\ pc' = [pc EXCEPT ![c] = "write"]
  /\ UNCHANGED <<req, resp, got>>
  /\ UNCHANGED postVars
  /\ UNCHANGED <<testVars, benchVars>>
  /\ Detect

\* the increment under a lock that is only released once the response is written
HandleRootAddLocked(c) ==
  /\ pc[c] = "add"
  /\ \A d \in Callers : pc[d] # "write"
  /\ visitors' = AddInt64(visitors, 1)
  /\ visitNum' = [visitNum EXCEPT ![c] = AddInt64(visitors, 1)]
  /\ pc' = [pc EXCEPT ![c] = "write"]
  /\ UNCHANGED <<req, now, resp, got>>
  /\ UNCHANGED postVars
  /\ UNCHANGED <<testVars, benchVars>>
  /\ Detect

\* visitNum := atomic.AddInt64(&visitors, 1)
HandleRootAdd(c) ==
  /\ pc[c] = "add"
  /\ visitors' = AddInt64(visitors, 1)
  /\ visitNum' = [visitNum EXCEPT ![c] = AddInt64(visitors, 1)]
  /\ pc' = [pc EXCEPT ![c] = "write"]
  /\ UNCHANGED <<req, now, resp, got>>
  /\ UNCHANGED postVars
  /\ UNCHANGED <<testVars, benchVars>>
  /\ Detect

\* the response printing the shared counter, read again, instead of visitNum
HandleRootWriteReread(c) ==
  /\ pc[c] = "write"
  /\ resp' = [resp EXCEPT ![c] = FprintfRoot(visitors)]
  /\ got' = [got EXCEPT ![c] = Append(@, NumberIn(FprintfRoot(visitors)))]
  /\ pc' = [pc EXCEPT ![c] = "idle"]
  /\ visitNum' = [visitNum EXCEPT ![c] = 0]
  /\ UNCHANGED <<visitors, req, now>>
  /\ UNCHANGED postVars
  /\ UNCHANGED <<testVars, benchVars>>
  /\ Detect

\* fmt.Fprintf(w, "... visitor number %d!", visitNum) and return; the client
\* reads the number from the body
HandleRootWrite(c) ==
  /\ pc[c] = "write"
  /\ resp' = [resp EXCEPT ![c] = FprintfRoot(visitNum[c])]
  /\ got' = [got EXCEPT ![c] = Append(@, NumberIn(FprintfRoot(visitNum[c])))]
  /\ pc' = [pc EXCEPT ![c] = "idle"]
  /\ visitNum' = [visitNum EXCEPT ![c] = 0]
  /\ UNCHANGED <<visitors, req, now>>
  /\ UNCHANGED postVars
  /\ UNCHANGED <<testVars, benchVars>>
  /\ Detect

\* ------------------------------------------------------- stepn: handlePost
\* caller c sends request r and handlePost is called with an empty response:
\* the method check and sha1.New(), up to bufPool.Get
HandlePost(c, r) ==
  /\ pc[c] = "idle"
  /\ IF BadMethodPost(r.method)
       THEN /\ resp' = [resp EXCEPT ![c] = HttpError("Bad method; want PUT", 400)]
            /\ UNCHANGED <<pc, req>>
       ELSE /\ resp' = [resp EXCEPT ![c] = NoResponse]
            /\ req' = [req EXCEPT ![c] = r]
            /\ pc' = [pc EXCEPT ![c] = "get"]
  /\ UNCHANGED rootVars
  /\ UNCHANGED postVars
  /\ UNCHANGED <<testVars, benchVars>>
  /\ Detect

\* bufPool.Get handing out a buffer of the pool without taking it out
HandlePostGetShared(c) ==
  /\ pc[c] = "get"
  /\ \/ \E b \in bufPool :
          /\ bufPool' = bufPool
          /\ bufp' = [bufp EXCEPT ![c] = b]
          /\ allocated' = allocated
     \/ /\ allocated < MaxBufs
        /\ allocated' = allocated + 1
        /\ bufp' = [bufp EXCEPT ![c] = allocated + 1]
        /\ bufPool' = bufPool
  /\ pc' = [pc EXCEPT ![c] = "copy"]
  /\ UNCHANGED <<req, resp, s1, copied>>
  /\ UNCHANGED rootVars
  /\ UNCHANGED <<testVars, benchVars>>
  /\ Detect

\* bufp := bufPool.Get().(*[]byte): a buffer of the pool, or a new one from New
\* (Get may treat the pool as empty)
HandlePostGet(c) ==
  /\ pc[c] = "get"
  /\ \/ \E b \in bufPool :
          /\ bufPool' = bufPool \ {b}
          /\ bufp' = [bufp EXCEPT ![c] = b]
          /\ allocated' = allocated
     \/ /\ allocated < MaxBufs
        /\ allocated' = allocated + 1
        /\ bufp' = [bufp EXCEPT ![c] = allocated + 1]
        /\ bufPool' = bufPool
  /\ pc' = [pc EXCEPT ![c] = "copy"]
  /\ UNCHANGED <<req, resp, s1, copied>>
  /\ UNCHANGED rootVars
  /\ UNCHANGED <<testVars, benchVars>>
  /\ Detect

\* n, err := io.CopyBuffer(s1, r.Body, *bufp); on error http.Error(w, err.Error(), 500)
\* and return, which runs the deferred bufPool.Put(bufp)
HandlePostCopy(c) ==
  /\ pc[c] = "copy"
  /\ req' = [req EXCEPT ![c] = NoRequest]
  /\ IF req[c].body.fail
       THEN /\ resp' = [resp EXCEPT ![c] = HttpError("read error", 500)]
            /\ bufPool' = bufPool \cup {bufp[c]}
            /\ bufp' = [bufp EXCEPT ![c] = NoBuf]
            /\ pc' = [pc EXCEPT ![c] = "idle"]
            /\ UNCHANGED <<s1, copied>>
       ELSE /\ s1' = [s1 EXCEPT ![c] = req[c].body.bytes]
            /\ copied' = [copied EXCEPT ![c] = [n |-> Len(req[c].body.bytes), err |-> FALSE]]
            /\ pc' = [pc EXCEPT ![c] = "sum"]
            /\ UNCHANGED <<resp, bufPool, bufp>>
  /\ UNCHANGED allocated
  /\ UNCHANGED rootVars
  /\ UNCHANGED <<testVars, benchVars>>
  /\ Detect

\* handlePost counting its requests as visitors too
HandlePostWriteCounting(c) ==
  /\ pc[c] = "sum"
  /\ resp' = [resp EXCEPT ![c] = FprintfPost(Sha1(s1[c]), copied[c].n)]
  /\ bufPool' = bufPool \cup {bufp[c]}
  /\ bufp' = [bufp EXCEPT ![c] = NoBuf]
  /\ pc' = [pc EXCEPT ![c] = "idle"]
  /\ s1' = [s1 EXCEPT ![c] = NoHash]
  /\ copied' = [copied EXCEPT ![c] = NoCopy]
  /\ visitors' = visitors + 1
  /\ UNCHANGED <<req, allocated, visitNum, now, got>>
  /\ UNCHANGED <<testVars, benchVars>>
  /\ Detect

\* fmt.Fprintf(w, "sha1 = %x in %d bytes", s1.Sum(...), n) and return, which runs
\* the deferred bufPool.Put(bufp)
HandlePostWrite(c) ==
  /\ pc[c] = "sum"
  /\ resp' = [resp EXCEPT ![c] = FprintfPost(Sha1(s1[c]), copied[c].n)]
  /\ bufPool' = bufPool \cup {bufp[c]}
  /\ bufp' = [bufp EXCEPT ![c] = NoBuf]
  /\ pc' = [pc EXCEPT ![c] = "idle"]
  /\ s1' = [s1 EXCEPT ![c] = NoHash]
  /\ copied' = [copied EXCEPT ![c] = NoCopy]
  /\ UNCHANGED <<req, allocated>>
  /\ UNCHANGED rootVars
  /\ UNCHANGED <<testVars, benchVars>>
  /\ Detect

Next ==
  \/ \E c \in Callers, r \in RootRequests : HandleRoot(c, r)
  \/ \E c \in Callers : HandleRootAdd(c)
  \/ \E c \in Callers : HandleRootWrite(c)
  \/ \E c \in PutCallers, r \in PostRequests : HandlePost(c, r)
  \/ \E c \in PutCallers : HandlePostGet(c)
  \/ \E c \in PutCallers : HandlePostCopy(c)
  \/ \E c \in PutCallers : HandlePostWrite(c)

Spec == Init /\ [][Next]_vars

\* the server main() starts: handleRoot is the only handler it registers
NextServer ==
  \/ \E c \in Callers, r \in RootRequests : HandleRoot(c, r)
  \/ \E c \in Callers : HandleRootAdd(c)
  \/ \E c \in Callers : HandleRootWrite(c)

SpecServer == Init /\ [][NextServer]_vars

\* --------------------------------------------------------- demo: handleHi
\* caller c sends request r and the server calls handleHi with an empty
\* response: the color validation and its early return, up to the increment
HandleHi(c, r) ==
  /\ pc[c] = "idle"
  /\ Counted < MaxVisitors
  /\ IF ~colorRx(FormValue(r.color))
       THEN /\ resp' = [resp EXCEPT ![c] = HttpError("Optional color is invalid", 400)]
            /\ UNCHANGED <<pc, req>>
       ELSE /\ resp' = [resp EXCEPT ![c] = NoResponse]
            /\ req' = [req EXCEPT ![c] = r]
            /\ pc' = [pc EXCEPT ![c] = "hi_load"]
  /\ UNCHANGED rootVars
  /\ UNCHANGED postVars
  /\ UNCHANGED <<testVars, benchVars>>
  /\ Detect

\* visitors++, first half: load visitors
HandleHiLoad(c) ==
  /\ pc[c] = "hi_load"
  /\ now' = [now EXCEPT ![c] = visitors]
  /\ pc' = [pc EXCEPT ![c] = "hi_store"]
  /\ UNCHANGED <<visitors, req, visitNum, resp, got>>
  /\ UNCHANGED postVars
  /\ UNCHANGED <<testVars, benchVars>>
  /\ Detect

\* the store of `visitors++` without the increment
HandleHiStoreNoInc(c) ==
  /\ pc[c] = "hi_store"
  /\ visitors' = now[c]
  /\ pc' = [pc EXCEPT ![c] = "hi_write"]
  /\ UNCHANGED <<req, visitNum, now, resp, got>>
  /\ UNCHANGED postVars
  /\ UNCHANGED <<testVars, benchVars>>
  /\ Detect

\* visitors++, second half: store the loaded value plus one
HandleHiStore(c) ==
  /\ pc[c] = "hi_store"
  /\ visitors' = now[c] + 1
  /\ pc' = [pc EXCEPT ![c] = "hi_write"]
  /\ UNCHANGED <<req, visitNum, now, resp, got>>
  /\ UNCHANGED postVars
  /\ UNCHANGED <<testVars, benchVars>>
  /\ Detect

\* w.Header().Set(...); w.Write(... + fmt.Sprint(visitors) + "!"), which reads
\* visitors again, and return; the client reads the number from the body
HandleHiWrite(c) ==
  /\ pc[c] = "hi_write"
  /\ resp' = [resp EXCEPT ![c] = WriteHi(FormValue(req[c].color), visitors)]
  /\ got' = [got EXCEPT ![c] = Append(@, NumberIn(WriteHi(FormValue(req[c].color), visitors)))]
  /\ pc' = [pc EXCEPT ![c] = "idle"]
  /\ req' = [req EXCEPT ![c] = NoRequest]
  /\ now' = [now EXCEPT ![c] = NotLoaded]
  /\ UNCHANGED <<visitors, visitNum>>
  /\ UNCHANGED postVars
  /\ UNCHANGED <<testVars, benchVars>>
  /\ Detect

NextDemo ==
  \/ \E c \in Callers, r \in HiRequests : HandleHi(c, r)
  \/ \E c \in Callers : HandleHiLoad(c)
  \/ \E c \in Callers : HandleHiStore(c)
  \/ \E c \in Callers : HandleHiWrite(c)

SpecDemo == Init /\ [][NextDemo]_vars

\* ------------------------------------------------------------ observations
\* the visitor numbers caller c's requests have obtained so far, oldest first:
\* those it has read from its responses and the one its running request holds
Issued(c) == IF pc[c] = "write" THEN Append(got[c], visitNum[c]) ELSE got[c]

\* every number handed out, with the place it was handed out at
Handouts == {h \in Callers \X (1..MaxVisitors) : h[2] <= Len(Issued(h[1]))}

NumberAt(h) == Issued(h[1])[h[2]]

HandedOut == {NumberAt(h) : h \in Handouts}

\* caller c's increment step
AddStep(c) == pc[c] = "add" /\ pc'[c] = "write"

\* C1: no two requests of handleRoot obtain the same visitor number, whatever
\* the number of concurrent requests and the interleaving of their steps
C1_Unique == \A g, h \in Handouts : g # h => NumberAt(g) # NumberAt(h)

\* two requests served concurrently hold a number each
C1_Witness == pc[1] = "write" /\ pc[2] = "write"

\* C2: once N accepted requests have made their increment, the numbers handed
\* out are exactly 1..N, each once
C2_Complete == HandedOut = 1..Cardinality(Handouts)

\* two concurrent callers have made two calls each and read their numbers
C2_Witness == Len(got[1]) = 2 /\ Len(got[2]) = 2

\* C3: a caller whose requests are the only accepted ones receives 1, 2, 3, ...
\* in that order
C3_Sequential ==
  \A c \in Callers :
    (\A d \in Callers \ {c} : Issued(d) = <<>>) =>
      \A i \in 1..Len(Issued(c)) : Issued(c)[i] = i

\* one caller has received three numbers and nobody else any
C3_Witness == Len(got[1]) = 3 /\ \A d \in Callers \ {1} : Issued(d) = <<>>

\* C4: the counter starts at 0, no response carries a visitor number before the
\* first increment, and the first increment hands out 1
C4_ZeroBaseline ==
  /\ visitors = 0
  /\ [](\A c \in Callers : IsGreeting(resp[c]) => visitors >= 1 /\ Handouts # {})
  /\ [][\A c \in Callers : (AddStep(c) /\ Handouts = {}) => visitNum'[c] = 1]_vars

\* the first greeting has been delivered
C4_Witness == \E c \in Callers : IsGreeting(resp[c]) /\ got[c] = <<1>> /\ Cardinality(Handouts) = 1

\* C5: an increment that begins after another one has completed obtains a
\* strictly larger number, whatever other requests do in between
C5_RealTimeOrder ==
  [][\A c \in Callers : AddStep(c) => \A h \in Handouts : NumberAt(h) < visitNum'[c]]_vars

\* a request has incremented after another caller's request had its number
C5_Witness ==
  \E c, d \in Callers : c # d /\ pc[c] = "write" /\ got[d] # <<>>
                        /\ got[d][Len(got[d])] < visitNum[c]

\* C6: in every step the counter stays the same or grows by exactly 1
C6_StepByOne == [][visitors' = visitors \/ visitors' = visitors + 1]_vars

\* the counter has grown three times
C6_Witness == visitors = 3

\* C7: the only step that touches visitors is the atomic increment of
\* handleRoot, and no two invocations ever make conflicting accesses to it
C7_OnlyAtomicAccess ==
  /\ [](~DataRace /\ ~raced)
  /\ [][visitors' # visitors =>
          \E c \in Callers : AddStep(c) /\ visitors' = visitNum'[c]
                              /\ \A d \in Callers \ {c} : pc'[d] = pc[d]]_vars

\* handlePost has completed while visitors had been incremented by handleRoot
C7_Witness ==
  \E c, d \in Callers : resp[c].code = 200 /\ ~IsGreeting(resp[c]) /\ pc[d] = "write" /\ visitors >= 1

\* the increments `visitors++` has completed in handleHi
Stores == Cardinality({c \in Callers : pc[c] = "hi_write"}) + Cardinality(Handouts)

\* an increment has been overwritten
LostIncrement == visitors < Stores

\* two requests have been shown the same number
SameNumberShown ==
  \E c, d \in Callers : \E i \in 1..Len(got[c]), j \in 1..Len(got[d]) :
    <<c, i>> # <<d, j>> /\ got[c][i] = got[d][j]

\* C8: in handleHi two concurrent requests can race on visitors so that an
\* increment is lost and both are shown the same number; a lost increment or a
\* repeated number never comes about without such a race, and the counter never
\* exceeds the increments made
C8_RaceLosesIncrement ==
  /\ (LostIncrement \/ SameNumberShown) => raced
  /\ visitors <= Stores
  /\ \A c \in Callers : \A i \in 1..Len(got[c]) : got[c][i] >= 1 /\ got[c][i] <= Stores

\* two requests, one race: the counter stands at 1 and both were shown 1
C8_Witness ==
  /\ raced /\ Stores = 2
  /\ visitors = 1 /\ LostIncrement
  /\ got[1] = <<1>> /\ got[2] = <<1>>

\* requests that handleRoot has rejected, and handlePost calls, make no handout
Accepted == Cardinality(Handouts)

\* C9: the counter equals the number of accepted handleRoot requests that have
\* made their increment; a rejected request and handlePost leave it unchanged
C9_OncePerAccepted ==
  /\ [](visitors = Accepted)
  /\ [][\A c \in Callers :
          (pc'[c] # pc[c] \/ resp'[c] # resp[c]) /\ ~AddStep(c) => visitors' = visitors]_vars

\* a rejected request, a finished handlePost and two counted visitors
C9_Witness ==
  \E c, d \in Callers :
    /\ resp[c] = HttpError("Optional numeric id is invalid", 400)
    /\ resp[d].code = 200 /\ ~IsGreeting(resp[d])
    /\ visitors = 2

\* caller c's request has been answered with a greeting
Answered(c) == pc[c] = "idle" /\ IsGreeting(resp[c])

\* C10: a request that has reached the increment gets its response as long as
\* its own steps are scheduled, whether or not any other request makes progress
C10_NeverBlocks ==
  \A c \in Callers :
    (WF_vars(HandleRootAdd(c)) /\ WF_vars(HandleRootWrite(c)))
       => ((pc[c] = "add") ~> Answered(c))

\* a request is answered while another one stays in flight behind its increment
C10_Witness ==
  \E c, d \in Callers : Answered(c) /\ pc[d] = "write" /\ got[c][Len(got[c])] > visitNum[d]

\* ------------------------------------------- benchpar: the mutex benchmarks
MaxIters == 3

\* the bodies handed to bench, and the increments of the talk that read the
\* number they have produced
BenchFns == {"LockUnlock", "LockDeferUnlock", "DeferUnlockLock", "Atomic",
             "foo", "nextVisitorNum", "AtomicVisitNum"}
MutexBenchFns == {"LockUnlock", "LockDeferUnlock", "DeferUnlockLock"}
MutexFns == MutexBenchFns \cup {"foo", "nextVisitorNum"}
ReturningFns == {"foo", "nextVisitorNum", "AtomicVisitNum"}

\* LockUnlock with the increment after the Unlock
BodyIncOutside(f) ==
  CASE f = "LockUnlock" -> <<"Lock", "Unlock", "Inc">>
    [] f = "LockDeferUnlock" -> <<"Lock", "DeferUnlock", "Inc">>
    [] f = "DeferUnlockLock" -> <<"DeferUnlock", "Lock", "Inc">>
    [] f = "Atomic" -> <<"AddInt64">>
    [] f = "foo" -> <<"Lock", "Inc", "Read", "Unlock">>
    [] f = "nextVisitorNum" -> <<"Lock", "DeferUnlock", "Inc", "Read">>
    [] f = "AtomicVisitNum" -> <<"AddInt64">>
    [] OTHER -> <<>>

\* the statements of each body, in program order
Body(f) ==
  CASE f = "LockUnlock" -> <<"Lock", "Inc", "Unlock">>
    [] f = "LockDeferUnlock" -> <<"Lock", "DeferUnlock", "Inc">>
    [] f = "DeferUnlockLock" -> <<"DeferUnlock", "Lock", "Inc">>
    [] f = "Atomic" -> <<"AddInt64">>
    [] f = "foo" -> <<"Lock", "Inc", "Read", "Unlock">>
    [] f = "nextVisitorNum" -> <<"Lock", "DeferUnlock", "Inc", "Read">>
    [] f = "AtomicVisitNum" -> <<"AddInt64">>
    [] OTHER -> <<>>

\* the statement goroutine g executes next; "return" past the last one
Stmt(g) ==
  IF bpc[g] = 0 THEN "none"
  ELSE IF bpc[g] <= Len(Body(fn)) THEN Body(fn)[bpc[g]]
  ELSE "return"

\* no handler is running and none has run
ServerAtRest ==
  /\ visitors = 0
  /\ pc = [c \in Callers |-> "idle"]
  /\ req = [c \in Callers |-> NoRequest]
  /\ visitNum = [c \in Callers |-> 0]
  /\ now = [c \in Callers |-> NotLoaded]
  /\ resp = [c \in Callers |-> NoResponse]
  /\ got = [c \in Callers |-> <<>>]
  /\ bufPool = {}
  /\ allocated = 0
  /\ bufp = [c \in Callers |-> NoBuf]
  /\ s1 = [c \in Callers |-> NoHash]
  /\ copied = [c \in Callers |-> NoCopy]
  /\ raced = FALSE

\* a benchmark is started: bench(b, fn) with one of the bodies, mu unlocked
InitBench ==
  /\ ServerAtRest
  /\ treq = NoRequest
  /\ matched = NoMatches
  /\ handler = ""
  /\ UnitsAtRest
  /\ fn \in BenchFns
  /\ mu = 0
  /\ n = 0
  /\ bpc = [g \in Callers |-> 0]
  /\ tmp = [g \in Callers |-> NotLoaded]
  /\ defers = [g \in Callers |-> <<>>]
  /\ ret = [g \in Callers |-> <<>>]
  /\ iters = 0
  /\ fatal = FALSE

\* mu.Unlock(): unlocking an unlocked mutex is a fatal error
Unlock ==
  IF mu = 0 THEN fatal' = TRUE /\ mu' = mu
  ELSE mu' = 0 /\ fatal' = fatal

Advance(g) == bpc' = [bpc EXCEPT ![g] = bpc[g] + 1]

\* for pb.Next() { fn() }: the next iteration is granted and fn is called
BenchCall(g) ==
  /\ ~fatal
  /\ bpc[g] = 0
  /\ iters < MaxIters
  /\ iters' = iters + 1
  /\ bpc' = [bpc EXCEPT ![g] = 1]
  /\ UNCHANGED <<fn, mu, n, tmp, defers, ret, fatal>>
  /\ UNCHANGED <<testVars, serverVars>>

\* mu.Lock() that does not wait for the mutex to be unlocked
BenchLockNoWait(g) ==
  /\ ~fatal
  /\ Stmt(g) = "Lock"
  /\ mu' = g
  /\ Advance(g)
  /\ UNCHANGED <<fn, n, tmp, defers, ret, iters, fatal>>
  /\ UNCHANGED <<testVars, serverVars>>

\* mu.Lock(): blocks until the mutex is unlocked, then locks it
BenchLock(g) ==
  /\ ~fatal
  /\ Stmt(g) = "Lock"
  /\ mu = 0
  /\ mu' = g
  /\ Advance(g)
  /\ UNCHANGED <<fn, n, tmp, defers, ret, iters, fatal>>
  /\ UNCHANGED <<testVars, serverVars>>

\* defer mu.Unlock() calling mu.Unlock() on the spot
BenchDeferUnlockNow(g) ==
  /\ ~fatal
  /\ Stmt(g) = "DeferUnlock"
  /\ Unlock
  /\ Advance(g)
  /\ UNCHANGED <<fn, n, tmp, defers, ret, iters>>
  /\ UNCHANGED <<testVars, serverVars>>

\* defer mu.Unlock(): the call is put off until the body returns
BenchDeferUnlock(g) ==
  /\ ~fatal
  /\ Stmt(g) = "DeferUnlock"
  /\ defers' = [defers EXCEPT ![g] = Append(defers[g], "Unlock")]
  /\ Advance(g)
  /\ UNCHANGED <<fn, mu, n, tmp, ret, iters, fatal>>
  /\ UNCHANGED <<testVars, serverVars>>

\* n++, first half: n is loaded
BenchLoad(g) ==
  /\ ~fatal
  /\ Stmt(g) = "Inc"
  /\ tmp[g] = NotLoaded
  /\ tmp' = [tmp EXCEPT ![g] = n]
  /\ UNCHANGED <<fn, mu, n, bpc, defers, ret, iters, fatal>>
  /\ UNCHANGED <<testVars, serverVars>>

\* n++, second half: the loaded value plus one is stored
BenchStore(g) ==
  /\ ~fatal
  /\ Stmt(g) = "Inc"
  /\ tmp[g] # NotLoaded
  /\ n' = tmp[g] + 1
  /\ tmp' = [tmp EXCEPT ![g] = NotLoaded]
  /\ Advance(g)
  /\ UNCHANGED <<fn, mu, defers, ret, iters, fatal>>
  /\ UNCHANGED <<testVars, serverVars>>

\* yourVisitorNumber := visitors.n, and the operand of `return visitors.n`
BenchRead(g) ==
  /\ ~fatal
  /\ Stmt(g) = "Read"
  /\ tmp' = [tmp EXCEPT ![g] = n]
  /\ Advance(g)
  /\ UNCHANGED <<fn, mu, n, defers, ret, iters, fatal>>
  /\ UNCHANGED <<testVars, serverVars>>

\* mu.Unlock() as a statement of the body
BenchUnlock(g) ==
  /\ ~fatal
  /\ Stmt(g) = "Unlock"
  /\ Unlock
  /\ Advance(g)
  /\ UNCHANGED <<fn, n, tmp, defers, ret, iters>>
  /\ UNCHANGED <<testVars, serverVars>>

\* atomic.AddInt64(&n, 1); BenchmarkAtomic drops the result
BenchAddInt64(g) ==
  /\ ~fatal
  /\ Stmt(g) = "AddInt64"
  /\ n' = AddInt64(n, 1)
  /\ tmp' = IF fn \in ReturningFns THEN [tmp EXCEPT ![g] = AddInt64(n, 1)] ELSE tmp
  /\ Advance(g)
  /\ UNCHANGED <<fn, mu, defers, ret, iters, fatal>>
  /\ UNCHANGED <<testVars, serverVars>>

\* the body returns: the deferred call runs, the caller gets the number read
BenchReturn(g) ==
  /\ ~fatal
  /\ Stmt(g) = "return"
  /\ IF defers[g] # <<>> THEN Unlock ELSE UNCHANGED <<mu, fatal>>
  /\ defers' = [defers EXCEPT ![g] = <<>>]
  /\ ret' = IF tmp[g] # NotLoaded THEN [ret EXCEPT ![g] = Append(ret[g], tmp[g])] ELSE ret
  /\ tmp' = [tmp EXCEPT ![g] = NotLoaded]
  /\ bpc' = [bpc EXCEPT ![g] = 0]
  /\ UNCHANGED <<fn, n, iters>>
  /\ UNCHANGED <<testVars, serverVars>>

BenchStep(g) ==
  \/ BenchCall(g)
  \/ BenchLock(g)
  \/ BenchDeferUnlock(g)
  \/ BenchLoad(g)
  \/ BenchStore(g)
  \/ BenchRead(g)
  \/ BenchUnlock(g)
  \/ BenchAddInt64(g)
  \/ BenchReturn(g)

NextBench == \E g \in Callers : BenchStep(g)

SpecBench == InitBench /\ [][NextBench]_vars

\* --------------------------------------------- benchpar: what is observed
\* the place of the increment in a body
IncAt(f) == CHOOSE i \in 1..Len(Body(f)) : Body(f)[i] \in {"Inc", "AddInt64"}

\* g is in an invocation that has not finished its increment yet
Pending(g) == bpc[g] # 0 /\ bpc[g] <= IncAt(fn)

\* every invocation that was started has returned
Quiescent == \A g \in Callers : bpc[g] = 0

\* how many numbers the invocations have returned
ReturnedCount ==
  LET sum[k \in 0..NumCallers] == IF k = 0 THEN 0 ELSE sum[k - 1] + Len(ret[k])
  IN  sum[NumCallers]

\* C11: mutex-guarded increments count like atomic ones: n has grown by one for
\* every invocation that has finished its increment, so by exactly K once K
\* invocations have run to completion; and the numbers read inside the
\* critical section (foo, nextVisitorNum) are then, like the results of
\* atomic.AddInt64 (AtomicVisitNum), exactly 1..K, each returned once
C11_MutexAsAtomic ==
  /\ n = iters - Cardinality({g \in Callers : Pending(g)})
  /\ Quiescent => n = iters
  /\ (Quiescent /\ fn \in ReturningFns) =>
       /\ ReturnedCount = iters
       /\ \A k \in 1..iters : \E g \in Callers : \E i \in 1..Len(ret[g]) : ret[g][i] = k

C11_Witness ==
  /\ fn = "nextVisitorNum"
  /\ Quiescent
  /\ iters = 3
  /\ ret[1] = <<2>>
  /\ ret[2] = <<1, 3>>

\* g's step changes where g stands in its body
Steps(g) == bpc'[g] # bpc[g] \/ tmp'[g] # tmp[g]

\* C12: in the three mutex benchmark bodies at most one goroutine is at the
\* increment, a goroutine at the increment holds mu, n changes only by a step
\* of the goroutine holding mu, and a goroutine holding mu has nothing before
\* it but the increment and the (deferred) Unlock
C12_CriticalSection ==
  /\ [](fn \in MutexBenchFns =>
          /\ Cardinality({g \in Callers : Stmt(g) = "Inc"}) <= 1
          /\ \A g \in Callers : Stmt(g) = "Inc" => mu = g
          /\ \A g \in Callers : mu = g => Stmt(g) \in {"Inc", "DeferUnlock", "Unlock", "return"})
  /\ [][(fn \in MutexBenchFns /\ n' # n) =>
          \E g \in Callers : mu = g /\ Steps(g) /\ Stmt(g) = "Inc" /\ n' = n + 1]_vars

C12_Witness ==
  /\ fn = "DeferUnlockLock"
  /\ mu = 1
  /\ Stmt(1) = "Inc"
  /\ tmp[1] = 1
  /\ Stmt(2) = "Lock"

\* every goroutine of the benchmark gets its turn
FairBench == \A g \in Callers : WF_vars(BenchStep(g))

\* C13: in the three mutex benchmark bodies mu changes only by a Lock that
\* finds it unlocked or by an Unlock of the goroutine that locked it, which is
\* then at its Unlock or at its return; mu is never unlocked while unlocked,
\* never locked by the goroutine that holds it, not held by a goroutine whose
\* invocation has returned; and under fair scheduling a goroutine waiting at
\* mu.Lock() acquires mu
C13_LockDiscipline ==
  /\ [](fn \in MutexBenchFns =>
          /\ ~fatal
          /\ \A g \in Callers : Stmt(g) = "Lock" => mu # g
          /\ \A g \in Callers : bpc[g] = 0 => mu # g
          /\ Quiescent => mu = 0)
  /\ [][(fn \in MutexBenchFns /\ mu' # mu) =>
          \/ mu = 0 /\ \E g \in Callers : mu' = g /\ Stmt(g) = "Lock" /\ Steps(g)
          \/ mu' = 0 /\ \E g \in Callers : mu = g /\ Stmt(g) \in {"Unlock", "return"} /\ Steps(g)]_vars
  /\ FairBench =>
       \A g \in Callers : (fn \in MutexBenchFns /\ Stmt(g) = "Lock") ~> (mu = g)

C13_Witness ==
  /\ fn = "DeferUnlockLock"
  /\ bpc[1] = 0
  /\ ret[1] = <<>>
  /\ n = 1
  /\ mu = 2
  /\ Stmt(2) = "Inc"

\* ------------------------------------------------ stepn: the captured number
\* C14: the number a request has captured is stable: rendering visitNum gives
\* back visitNum, the response carries the request's own visitNum and writing
\* it does not touch the counter, and neither the captured visitNum nor the
\* greeting already written changes while other requests increment visitors
C14_StableNumber ==
  /\ [](\A c \in Callers : pc[c] = "write" => NumberIn(FprintfRoot(visitNum[c])) = visitNum[c])
  /\ [][\A c \in Callers :
          /\ (pc[c] = "write" /\ pc'[c] = "idle") =>
               (NumberIn(resp'[c]) = visitNum[c] /\ visitors' = visitors)
          /\ (pc[c] = "write" /\ pc'[c] = "write") => visitNum'[c] = visitNum[c]
          /\ (pc[c] = "idle" /\ pc'[c] = "idle" /\ IsGreeting(resp[c]) /\ IsGreeting(resp'[c])) =>
               (resp'[c] = resp[c] /\ got'[c] = got[c])]_vars

C14_Witness ==
  /\ pc[1] = "write"
  /\ visitNum[1] = 1
  /\ visitors = 3
  /\ IsGreeting(resp[2])
  /\ NumberIn(resp[2]) = 3

\* ------------------------------------------------- demo: the number shown
\* C15: in handleHi the number embedded in a response is the value the same
\* request's own increment produced: when the request comes to read visitors
\* in fmt.Sprint(visitors), visitors still is what its `visitors++` stored
C15_OwnNumber ==
  \A c \in Callers : pc[c] = "hi_write" => visitors = now[c] + 1

\* ------------------------------------------------ demo: matching the color
MaxColorLen == 2

\* the characters a color is made of here: a digit, a letter, the underscore,
\* and one character that \w does not match
ColorChars == {"7", "x", "_", ";"}

RECURSIVE StringsOfLen(_)
StringsOfLen(k) ==
  IF k = 0 THEN {<<>>}
  ELSE {Append(s, ch) : s \in StringsOfLen(k - 1), ch \in ColorChars}

\* the requests whose color is absent or at most MaxColorLen characters long
ColorRequests ==
  {HiRequest(NoValue)} \cup
  {HiRequest(Param(s)) : s \in UNION {StringsOfLen(k) : k \in 0..MaxColorLen}}

\* the patterns of the talk, as what regexp/syntax parses them to: ^ (begin of
\* text), a repetition of a character class, $ (end of text, no flag m)
AnchoredWord == [bol |-> TRUE, class |-> WordChars, eol |-> TRUE]
UnanchoredWord == [bol |-> FALSE, class |-> WordChars, eol |-> TRUE]

\* (*Regexp).MatchString: some substring s[i..j], empty ones included, matches
\* the pattern; ^ allows it to begin only at the start of the text and $ to
\* end only at the end of the text
RegexpMatch(rx, s) ==
  \E i \in 1..Len(s) + 1 : \E j \in (i - 1)..Len(s) :
    /\ rx.bol => i = 1
    /\ rx.eol => j = Len(s)
    /\ \A k \in i..j : s[k] \in rx.class

Verdict(b) == IF b THEN "match" ELSE "no match"

\* a request whose color is to be matched
InitColorRx ==
  /\ ServerAtRest
  /\ NoBenchmark
  /\ treq \in ColorRequests
  /\ matched = NoMatches
  /\ handler = ""
  /\ UnitsAtRest

\* demo.go: colorRx.MatchString(r.FormValue("color")), colorRx compiled once
MatchColorRx ==
  /\ matched["colorRx"] = ""
  /\ matched' = [matched EXCEPT !["colorRx"] = Verdict(colorRx(FormValue(treq.color)))]
  /\ UNCHANGED <<treq, handler, unitVars, serverVars, benchVars>>

\* README, first handleHi: regexp.MatchString(`^\w*$`, r.FormValue("color"))
MatchPerRequest ==
  /\ matched["MatchString"] = ""
  /\ matched' = [matched EXCEPT !["MatchString"] =
                   Verdict(RegexpMatch(AnchoredWord, FormValue(treq.color)))]
  /\ UNCHANGED <<treq, handler, unitVars, serverVars, benchVars>>

\* README, "Let's compile that regexp just once":
\* var colorRx = regexp.MustCompile(`\w*$`); colorRx.MatchString(r.FormValue("color"))
MatchReadme ==
  /\ matched["README"] = ""
  /\ matched' = [matched EXCEPT !["README"] =
                   Verdict(RegexpMatch(UnanchoredWord, FormValue(treq.color)))]
  /\ UNCHANGED <<treq, handler, unitVars, serverVars, benchVars>>

NextColorRx == MatchColorRx \/ MatchPerRequest \/ MatchReadme

SpecColorRx == InitColorRx /\ [][NextColorRx]_vars

\* C16: the three matchers accept the same colors: the precompiled colorRx of
\* demo.go, the per-request regexp.MatchString(`^\w*$`, color), and the
\* README's replacement snippet compiled from `\w*$`
C16_SameMatchers ==
  \A k, m \in Matchers : (matched[k] # "" /\ matched[m] # "") => matched[k] = matched[m]

\* C16, the part about demo.go: the precompiled colorRx accepts exactly when
\* the per-request regexp.MatchString(`^\w*$`, color) accepts
C16_PrecompiledSame ==
  (matched["colorRx"] # "" /\ matched["MatchString"] # "") =>
     matched["colorRx"] = matched["MatchString"]

C16_Witness ==
  /\ FormValue(treq.color) = <<"x", ";">>
  /\ matched["colorRx"] = "no match"
  /\ matched["MatchString"] = "no match"
  /\ matched["README"] = "match"

\* ------------------------------------------------------ step0: handleRoot
\* step0 handleRoot up to its first step that touches visitors or writes the
\* response: the method check, the id check and their early returns
HandleRoot0(c, r) ==
  /\ pc[c] = "idle"
  /\ Counted < MaxVisitors
  /\ IF BadMethodRoot(r.method)
       THEN /\ resp' = [resp EXCEPT ![c] = HttpError("Bad method.", 400)]
            /\ pc' = pc
       ELSE IF ~rxOptionalID(FormValue(r.id))
       THEN /\ resp' = [resp EXCEPT ![c] = HttpError("Optional numeric id is invalid", 400)]
            /\ pc' = pc
       ELSE /\ resp' = [resp EXCEPT ![c] = NoResponse]
            /\ pc' = [pc EXCEPT ![c] = "r0_load"]
  /\ UNCHANGED req
  /\ UNCHANGED rootVars
  /\ UNCHANGED postVars
  /\ UNCHANGED <<testVars, benchVars>>
  /\ Detect

\* visitors++, first half: load visitors
HandleRoot0Load(c) ==
  /\ pc[c] = "r0_load"
  /\ now' = [now EXCEPT ![c] = visitors]
  /\ pc' = [pc EXCEPT ![c] = "r0_store"]
  /\ UNCHANGED <<visitors, req, visitNum, resp, got>>
  /\ UNCHANGED postVars
  /\ UNCHANGED <<testVars, benchVars>>
  /\ Detect

\* visitors++, second half: store the loaded value plus one
HandleRoot0Store(c) ==
  /\ pc[c] = "r0_store"
  /\ visitors' = now[c] + 1
  /\ pc' = [pc EXCEPT ![c] = "r0_write"]
  /\ UNCHANGED <<req, visitNum, now, resp, got>>
  /\ UNCHANGED postVars
  /\ UNCHANGED <<testVars, benchVars>>
  /\ Detect

\* w.Header().Set(...); w.Write(... + fmt.Sprint(visitors) + "!") and return
HandleRoot0Write(c) ==
  /\ pc[c] = "r0_write"
  /\ resp' = [resp EXCEPT ![c] = WriteRoot0(visitors)]
  /\ got' = [got EXCEPT ![c] = Append(@, NumberIn(WriteRoot0(visitors)))]
  /\ pc' = [pc EXCEPT ![c] = "idle"]
  /\ now' = [now EXCEPT ![c] = NotLoaded]
  /\ UNCHANGED <<visitors, req, visitNum>>
  /\ UNCHANGED postVars
  /\ UNCHANGED <<testVars, benchVars>>
  /\ Detect

\* --------------------------------------------------- the *_Recorder tests
\* the test goroutine
TestCaller == 1

\* the handlers the tests call, and the requests they are called with here
TestCalls ==
  ({"stepn.handleRoot"} \X RootRequests) \cup
  ({"demo.handleHi"} \X ColorRequests) \cup
  ({"step0.handleRoot"} \X RootRequests)

\* rw := httptest.NewRecorder() and a request read by http.ReadRequest
NewRequest(h, r) ==
  /\ pc[TestCaller] = "idle"
  /\ handler' = h
  /\ treq' = r
  /\ resp' = [resp EXCEPT ![TestCaller] = NoResponse]
  /\ UNCHANGED <<visitors, pc, req, visitNum, now, got, raced, matched, unitVars>>
  /\ UNCHANGED postVars
  /\ UNCHANGED benchVars

\* the recorder is fresh: the handler has not been called with it
Fresh == treq # NoRequest /\ resp[TestCaller] = NoResponse

\* stepn TestHandleRoot: handleRoot(rw, req)
TestHandleRoot == handler = "stepn.handleRoot" /\ Fresh /\ HandleRoot(TestCaller, treq)

\* demo TestHandleHi_Recorder: handleHi(rw, req(...))
TestHandleHi == handler = "demo.handleHi" /\ Fresh /\ HandleHi(TestCaller, treq)

\* step0 TestHandleRoot_Recorder: handleRoot(rw, req(...))
TestHandleRoot0 == handler = "step0.handleRoot" /\ Fresh /\ HandleRoot0(TestCaller, treq)

NextRecorder ==
  \/ \E call \in TestCalls : NewRequest(call[1], call[2])
  \/ TestHandleRoot
  \/ HandleRootAdd(TestCaller)
  \/ HandleRootWrite(TestCaller)
  \/ TestHandleHi
  \/ HandleHiLoad(TestCaller)
  \/ HandleHiStore(TestCaller)
  \/ HandleHiWrite(TestCaller)
  \/ TestHandleRoot0
  \/ HandleRoot0Load(TestCaller)
  \/ HandleRoot0Store(TestCaller)
  \/ HandleRoot0Write(TestCaller)

SpecRecorder == Init /\ [][NextRecorder]_vars

\* ------------------------------------------- what the recorder has recorded
\* the handler has returned and the recorder holds its response
Recorded == pc[TestCaller] = "idle" /\ resp[TestCaller] # NoResponse

\* the request as it was sent: the method is GET or HEAD; the id is absent,
\* empty or digits only; the color has no character outside letters, digits
\* and the underscore
MethodOk == treq.method \in {"GET", "HEAD"}
IdOk ==
  \/ ~treq.id.present
  \/ treq.id.value = <<>>
  \/ \A i \in 1..Len(treq.id.value) : treq.id.value[i] \in Digits
ColorOk ==
  ~treq.color.present \/ \A i \in 1..Len(treq.color.value) : treq.color.value[i] \in {"7", "x", "_"}

\* the test neither builds a new request nor takes a new recorder in this step
SameRequest == handler' = handler /\ treq' = treq

\* how many of the three outcomes of handleRoot a body holds
Outcomes == {"Bad method.", "Optional numeric id is invalid", RootGreeting}
OutcomeCount(body) == Cardinality({i \in 1..Len(body) : body[i] \in Outcomes})

\* the body holds a decimal digit
HasNumber(body) == \E i \in 1..Len(body) : body[i] \in Digits

\* C17: stepn handleRoot answers with the greeting exactly when the method is
\* GET or HEAD and the id is absent, empty or digits only; every other request
\* is answered with status 400 and a body with neither greeting nor number, and
\* neither increments the counter nor hands out a visitor number
C17_RootValidation ==
  /\ [](handler = "stepn.handleRoot" =>
          /\ pc[TestCaller] # "idle" => (MethodOk /\ IdOk)
          /\ Recorded =>
               IF MethodOk /\ IdOk
                 THEN IsGreeting(resp[TestCaller])
                 ELSE /\ resp[TestCaller].code = 400
                      /\ GreetingAt(resp[TestCaller].body) = 0
                      /\ ~HasNumber(resp[TestCaller].body))
  /\ [][(handler = "stepn.handleRoot" /\ SameRequest /\ ~(MethodOk /\ IdOk)) =>
          (visitors' = visitors /\ got' = got)]_vars

C17_Witness ==
  /\ handler = "stepn.handleRoot"
  /\ Recorded
  /\ treq.method = "HEAD"
  /\ treq.id = Param(<<"7">>)
  /\ resp[TestCaller].body = <<RootGreeting, "2", "!">>

\* C18: for every accepted request the response of demo's handleHi and of
\* step0's handleRoot has Content-Type "text/html; charset=utf-8" and a body
\* in which the text ending in "visitor number " is followed by the value of
\* the counter
C18_HtmlGreeting ==
  (/\ Recorded
   /\ \/ handler = "demo.handleHi" /\ ColorOk
      \/ handler = "step0.handleRoot" /\ MethodOk /\ IdOk) =>
    /\ resp[TestCaller].code = 200
    /\ resp[TestCaller].ctype = "text/html; charset=utf-8"
    /\ GreetingAt(resp[TestCaller].body) > 0
    /\ SubSeq(resp[TestCaller].body, GreetingAt(resp[TestCaller].body) + 1,
              Len(resp[TestCaller].body) - 1) = FormatInt(visitors)

C18_Witness ==
  /\ handler = "step0.handleRoot"
  /\ Recorded
  /\ treq.method = "GET"
  /\ resp[TestCaller].ctype = "text/html; charset=utf-8"
  /\ resp[TestCaller].body = <<Root0Greeting, "3", "!">>
  /\ visitors = 3

\* C19: stepn handleRoot checks the method before the id and stops at the first
\* check that fails: a request failing a check gets that check's message and
\* nothing else, one failing both gets "Bad method." alone, and no response
\* holds more than one of the two errors and the greeting
C19_FirstFailedCheck ==
  /\ \A c \in Callers : OutcomeCount(resp[c].body) <= 1
  /\ (handler = "stepn.handleRoot" /\ Recorded /\ ~MethodOk) =>
       resp[TestCaller] = [code |-> 400, ctype |-> "text/plain; charset=utf-8",
                           body |-> <<"Bad method.">>]
  /\ (handler = "stepn.handleRoot" /\ Recorded /\ MethodOk /\ ~IdOk) =>
       resp[TestCaller] = [code |-> 400, ctype |-> "text/plain; charset=utf-8",
                           body |-> <<"Optional numeric id is invalid">>]

C19_Witness ==
  /\ handler = "stepn.handleRoot"
  /\ Recorded
  /\ treq.method = "PUT"
  /\ treq.id = Param(<<"7", "x">>)
  /\ resp[TestCaller].body = <<"Bad method.">>

\* the color copied into a greeting of handleHi: what stands between the
\* opening text and the text ending in "visitor number "
ColorIn(body) == SubSeq(body, 2, GreetingAt(body) - 1)

\* C20: a color copied into an HTML response of handleHi matches ^\w*$, no
\* response body holds a character of the request outside letters, digits and
\* the underscore, and a request whose color has such a character is answered
\* with status 400 and leaves the counter as it was
C20_ColorSafe ==
  /\ [](handler = "demo.handleHi" =>
          /\ \A i \in 1..Len(resp[TestCaller].body) : resp[TestCaller].body[i] # ";"
          /\ (Recorded /\ IsGreeting(resp[TestCaller])) =>
               /\ ColorIn(resp[TestCaller].body) = FormValue(treq.color)
               /\ RegexpMatch(AnchoredWord, ColorIn(resp[TestCaller].body))
          /\ (Recorded /\ ~ColorOk) =>
               /\ resp[TestCaller].code = 400
               /\ GreetingAt(resp[TestCaller].body) = 0
          /\ pc[TestCaller] # "idle" => ColorOk)
  /\ [][(handler = "demo.handleHi" /\ SameRequest /\ ~ColorOk) =>
          (visitors' = visitors /\ got' = got)]_vars

C20_Witness ==
  /\ handler = "demo.handleHi"
  /\ Recorded
  /\ FormValue(treq.color) = <<"x", ";">>
  /\ resp[TestCaller].code = 400
  /\ visitors = 2

\* ------------------------------------------- stepn: handlePost, concurrently
\* handlePost served for several callers at once, as a server that registered
\* it would call it
NextPool ==
  \/ \E c \in Callers, r \in PostRequests : HandlePost(c, r)
  \/ \E c \in Callers : HandlePostGet(c)
  \/ \E c \in Callers : HandlePostCopy(c)
  \/ \E c \in Callers : HandlePostWrite(c)

SpecPool == Init /\ [][NextPool]_vars

\* the callers whose handlePost holds a buffer
Holders == {c \in Callers : bufp[c] # NoBuf}

MaxBodyLen == 5

Min(a, b) == IF a < b THEN a ELSE b

\* a body of k bytes: "a" and "b" in turn, beginning with first
BodyOfLen(k, first) ==
  [i \in 1..k |-> IF (i % 2 = 1) = (first = "a") THEN "a" ELSE "b"]

\* the bodies of BenchmarkPut's requests here: every length up to MaxBodyLen
\* ending in EOF, and every length ending in a read error
PutBodies ==
  {[bytes |-> BodyOfLen(k, first), fail |-> FALSE] :
     k \in 0..MaxBodyLen, first \in {"a", "b"}}
  \cup {[bytes |-> BodyOfLen(k, "a"), fail |-> TRUE] : k \in 0..MaxBodyLen}
PutRequests ==
  {PostRequest("PUT", body) : body \in PutBodies}
  \cup {PostRequest("GET", [bytes |-> BodyOfLen(1, "a"), fail |-> FALSE])}

\* bytes as they lie in a buffer, and back
Cells(bytes) == [i \in 1..Len(bytes) |-> <<bytes[i]>>]
Bytes(cells) == [i \in 1..Len(cells) |-> cells[i][1]]

\* copy(buf, cells): the front of buf overwritten, the rest of buf as it was
Store(buf, cells) ==
  [i \in 1..Len(buf) |-> IF i <= Len(cells) THEN cells[i] ELSE buf[i]]

\* rw.Body.Reset(); req.Body = body: the benchmark's next request
NewPut(r) ==
  /\ pc[TestCaller] = "idle"
  /\ handler' = "stepn.handlePost"
  /\ treq' = r
  /\ resp' = [resp EXCEPT ![TestCaller] = NoResponse]
  /\ UNCHANGED <<visitors, pc, req, visitNum, now, got, raced, matched, unitVars>>
  /\ UNCHANGED postVars
  /\ UNCHANGED benchVars

\* BenchmarkPut: handlePost(rw, req)
TestHandlePost == handler = "stepn.handlePost" /\ Fresh /\ HandlePost(TestCaller, treq)

\* io.CopyBuffer writing the whole buffer to the hash, not only the bytes read
CopyBufferReadWhole(c) ==
  /\ pc[c] = "copy"
  /\ req[c].body.bytes # <<>>
  /\ \E nr \in 1..Min(BufSize, Len(req[c].body.bytes)) :
       /\ mem' = [mem EXCEPT ![bufp[c]] = Store(@, Cells(SubSeq(req[c].body.bytes, 1, nr)))]
       /\ s1' = [s1 EXCEPT ![c] = @ \o Bytes(mem'[bufp[c]])]
       /\ copied' = [copied EXCEPT ![c].n = @ + BufSize]
       /\ req' = [req EXCEPT ![c].body.bytes = SubSeq(@, nr + 1, Len(@))]
  /\ UNCHANGED <<pc, resp, bufPool, allocated, bufp>>
  /\ UNCHANGED rootVars
  /\ UNCHANGED <<treq, matched, handler, p, rd, wide, rw>>
  /\ UNCHANGED benchVars
  /\ Detect

\* io.CopyBuffer, one round of its loop: nr, er := src.Read(buf) delivers
\* between 1 and len(buf) of the bytes left, dst.Write(buf[0:nr]) hashes them
CopyBufferRead(c) ==
  /\ pc[c] = "copy"
  /\ req[c].body.bytes # <<>>
  /\ \E nr \in 1..Min(BufSize, Len(req[c].body.bytes)) :
       /\ mem' = [mem EXCEPT ![bufp[c]] = Store(@, Cells(SubSeq(req[c].body.bytes, 1, nr)))]
       /\ s1' = [s1 EXCEPT ![c] = @ \o Bytes(SubSeq(mem'[bufp[c]], 1, nr))]
       /\ copied' = [copied EXCEPT ![c].n = @ + nr]
       /\ req' = [req EXCEPT ![c].body.bytes = SubSeq(@, nr + 1, Len(@))]
  /\ UNCHANGED <<pc, resp, bufPool, allocated, bufp>>
  /\ UNCHANGED rootVars
  /\ UNCHANGED <<treq, matched, handler, p, rd, wide, rw>>
  /\ UNCHANGED benchVars
  /\ Detect

\* the read error answered without the deferred bufPool.Put
CopyBufferEndLeak(c) ==
  /\ pc[c] = "copy"
  /\ req[c].body.bytes = <<>>
  /\ req' = [req EXCEPT ![c] = NoRequest]
  /\ IF req[c].body.fail
       THEN /\ resp' = [resp EXCEPT ![c] = HttpError("read error", 500)]
            /\ bufp' = [bufp EXCEPT ![c] = NoBuf]
            /\ pc' = [pc EXCEPT ![c] = "idle"]
            /\ s1' = [s1 EXCEPT ![c] = NoHash]
            /\ copied' = [copied EXCEPT ![c] = NoCopy]
            /\ UNCHANGED bufPool
       ELSE /\ pc' = [pc EXCEPT ![c] = "sum"]
            /\ UNCHANGED <<resp, bufPool, bufp, s1, copied>>
  /\ UNCHANGED allocated
  /\ UNCHANGED rootVars
  /\ UNCHANGED <<testVars, benchVars>>
  /\ Detect

\* io.CopyBuffer, the last round: src.Read returns io.EOF, which ends the copy
\* with err == nil, or an error, which handlePost answers with
\* http.Error(w, err.Error(), 500) before returning through the deferred Put
CopyBufferEnd(c) ==
  /\ pc[c] = "copy"
  /\ req[c].body.bytes = <<>>
  /\ req' = [req EXCEPT ![c] = NoRequest]
  /\ IF req[c].body.fail
       THEN /\ resp' = [resp EXCEPT ![c] = HttpError("read error", 500)]
            /\ bufPool' = bufPool \cup {bufp[c]}
            /\ bufp' = [bufp EXCEPT ![c] = NoBuf]
            /\ pc' = [pc EXCEPT ![c] = "idle"]
            /\ s1' = [s1 EXCEPT ![c] = NoHash]
            /\ copied' = [copied EXCEPT ![c] = NoCopy]
       ELSE /\ pc' = [pc EXCEPT ![c] = "sum"]
            /\ UNCHANGED <<resp, bufPool, bufp, s1, copied>>
  /\ UNCHANGED allocated
  /\ UNCHANGED rootVars
  /\ UNCHANGED <<testVars, benchVars>>
  /\ Detect

\* s1.Sum((*bufp)[:0]) taken as (*bufp)[:1]: the first byte of the buffer
\* stays in front of the digest
HandlePostSumStale(c) ==
  /\ pc[c] = "sum"
  /\ mem' = [mem EXCEPT ![bufp[c]] = Store(@, <<@[1], Sha1(s1[c])>>)]
  /\ resp' = [resp EXCEPT ![c] =
                [code |-> 200, ctype |-> "",
                 body |-> <<"sha1 = ">> \o SubSeq(mem'[bufp[c]], 1, 2) \o <<" in ">>
                          \o FormatInt(copied[c].n) \o <<" bytes">>]]
  /\ bufPool' = bufPool \cup {bufp[c]}
  /\ bufp' = [bufp EXCEPT ![c] = NoBuf]
  /\ pc' = [pc EXCEPT ![c] = "idle"]
  /\ s1' = [s1 EXCEPT ![c] = NoHash]
  /\ copied' = [copied EXCEPT ![c] = NoCopy]
  /\ UNCHANGED <<req, allocated>>
  /\ UNCHANGED rootVars
  /\ UNCHANGED <<treq, matched, handler, p, rd, wide, rw>>
  /\ UNCHANGED benchVars
  /\ Detect

\* fmt.Fprintf(w, "sha1 = %x in %d bytes", s1.Sum((*bufp)[:0]), n): the digest
\* is appended to the buffer cut to length 0, so it lies at the front of the
\* buffer, and is printed from there; then the deferred bufPool.Put(bufp)
HandlePostSum(c) ==
  /\ pc[c] = "sum"
  /\ mem' = [mem EXCEPT ![bufp[c]] = Store(@, <<Sha1(s1[c])>>)]
  /\ resp' = [resp EXCEPT ![c] = FprintfPost(mem'[bufp[c]][1], copied[c].n)]
  /\ bufPool' = bufPool \cup {bufp[c]}
  /\ bufp' = [bufp EXCEPT ![c] = NoBuf]
  /\ pc' = [pc EXCEPT ![c] = "idle"]
  /\ s1' = [s1 EXCEPT ![c] = NoHash]
  /\ copied' = [copied EXCEPT ![c] = NoCopy]
  /\ UNCHANGED <<req, allocated>>
  /\ UNCHANGED rootVars
  /\ UNCHANGED <<treq, matched, handler, p, rd, wide, rw>>
  /\ UNCHANGED benchVars
  /\ Detect

NextPut ==
  \/ \E r \in PutRequests : NewPut(r)
  \/ TestHandlePost
  \/ HandlePostGet(TestCaller)
  \/ CopyBufferRead(TestCaller)
  \/ CopyBufferEnd(TestCaller)
  \/ HandlePostSum(TestCaller)

SpecPut == Init /\ [][NextPut]_vars

\* the request handlePost is answering, or has answered, in the benchmark
PostUnderTest == handler = "stepn.handlePost" /\ treq # NoRequest

\* C22: a request whose method is not PUT is answered 400 "Bad method; want
\* PUT" in the one step that writes its response, which takes no buffer from the pool, allocates none and
\* reads nothing of the body; a PUT whose body ends in a read error is answered
\* 500 with the error's text and no "sha1 = ..." line, and its buffer is back
\* in the pool when handlePost has returned.
C22_ErrorResponses ==
  /\ []((PostUnderTest /\ Recorded) =>
          /\ treq.method # "PUT" =>
               resp[TestCaller] = HttpError("Bad method; want PUT", 400)
          /\ (treq.method = "PUT" /\ treq.body.fail) =>
               /\ resp[TestCaller].code = 500
               /\ resp[TestCaller].body = <<"read error">>
               /\ \A i \in 1..Len(resp[TestCaller].body) :
                    resp[TestCaller].body[i] # "sha1 = "
               /\ bufp[TestCaller] = NoBuf
               /\ Cardinality(bufPool) = allocated)
  /\ [][(PostUnderTest /\ treq.method # "PUT" /\ resp'[TestCaller] # NoResponse) =>
          /\ resp[TestCaller] = NoResponse
          /\ pc'[TestCaller] = "idle"
          /\ UNCHANGED <<bufPool, allocated, bufp, mem, s1, copied, req>>]_vars

C22_Witness ==
  /\ PostUnderTest /\ Recorded
  /\ treq.method = "PUT" /\ treq.body.fail /\ Len(treq.body.bytes) = BufSize + 1
  /\ resp[TestCaller].code = 500
  /\ bufPool = {1}

\* the unbuffered io.Copy(s1, r.Body) that io.CopyBuffer replaces: the same
\* loop over a buffer of its own, every Read filling as much as it can
RECURSIVE IoCopy(_, _)
IoCopy(src, dst) ==
  IF src = <<>>
    THEN [written |-> dst, n |-> Len(dst)]
    ELSE LET nr == Min(BufSize, Len(src))
             buf == Store([i \in 1..BufSize |-> Zero], Cells(SubSeq(src, 1, nr)))
         IN  IoCopy(SubSeq(src, nr + 1, Len(src)), dst \o Bytes(SubSeq(buf, 1, nr)))

\* C23: for a PUT whose body delivers L bytes and then EOF, the bytes hashed so
\* far followed by the bytes still unread are always the body, n counts the
\* bytes hashed, nothing is left unread when the digest is taken, and the
\* response reports the digest of exactly the L bytes and n = L, as
\* io.Copy would have, whether the body is shorter than the buffer, fills it
\* exactly or takes several chunks.
C23_HashesWholeBody ==
  (PostUnderTest /\ treq.method = "PUT") =>
    /\ pc[TestCaller] = "copy" =>
         /\ s1[TestCaller] \o req[TestCaller].body.bytes = treq.body.bytes
         /\ copied[TestCaller].n = Len(s1[TestCaller])
    /\ pc[TestCaller] = "sum" =>
         /\ s1[TestCaller] = treq.body.bytes
         /\ copied[TestCaller].n = Len(treq.body.bytes)
    /\ (Recorded /\ ~treq.body.fail) =>
         /\ resp[TestCaller] =
              FprintfPost(Sha1(treq.body.bytes), Len(treq.body.bytes))
         /\ resp[TestCaller] =
              FprintfPost(Sha1(IoCopy(treq.body.bytes, <<>>).written),
                          IoCopy(treq.body.bytes, <<>>).n)

C23_Witness ==
  /\ PostUnderTest /\ Recorded
  /\ treq.method = "PUT" /\ ~treq.body.fail
  /\ Len(treq.body.bytes) = 2 * BufSize + 1
  /\ resp[TestCaller].code = 200
  /\ mem[1][BufSize] # Zero

\* ------------------------------ pooled buffers reused by the text handlers
TextBufSize == 4

\* a slice: its array a (whose length is the capacity), its length l, whether a
\* is still the pooled array (own), and the pooled array as it now is (back)
Slice(arr) == [a |-> arr, l |-> 0, own |-> TRUE, back |-> arr]

\* append(sl, toks...): written behind the first l elements while the capacity
\* lasts, else the first l elements and toks in a new array
AppendTo(sl, toks) ==
  IF sl.l + Len(toks) <= Len(sl.a)
    THEN LET arr == [i \in 1..Len(sl.a) |->
                       IF i > sl.l /\ i <= sl.l + Len(toks) THEN toks[i - sl.l] ELSE sl.a[i]]
         IN  [a |-> arr, l |-> sl.l + Len(toks), own |-> sl.own,
              back |-> IF sl.own THEN arr ELSE sl.back]
    ELSE [a |-> SubSeq(sl.a, 1, sl.l) \o toks, l |-> sl.l + Len(toks),
          own |-> FALSE, back |-> sl.back]

\* (*bytes.Buffer).WriteString: as append, the buffer keeping the array it grew into
WriteString(sl, toks) ==
  LET grown == AppendTo(sl, toks)
  IN  [grown EXCEPT !.own = TRUE, !.back = grown.a]

\* the text of the README's pooled handler
PoolHiText(color, num) ==
  <<"<h1 style='color: ">> \o color \o <<">Welcome!</h1>You are visitor number ">>
    \o FormatInt(num) \o <<"!">>

\* the three programs that answer out of a pooled buffer, and their requests;
\* a pool serves one of them only
ReuseRequests(h) ==
  IF h = "stepn.handlePost" THEN PutRequests
  ELSE IF h = "step0.BenchmarkSyncPool" THEN {RootRequest("GET", NoValue)}
  ELSE HiRequests

NewReuse(h, r) ==
  /\ pc[TestCaller] = "idle"
  /\ handler \in {"", h}
  /\ handler' = h
  /\ treq' = r
  /\ resp' = [resp EXCEPT ![TestCaller] = NoResponse]
  /\ UNCHANGED <<visitors, pc, req, visitNum, now, got, raced, matched, unitVars>>
  /\ UNCHANGED postVars
  /\ UNCHANGED benchVars

\* BenchmarkSyncPool's handler: bufp := p.Get(); defer p.Put(bufp);
\* buf := (*bufp)[:0]; three appends; w.Write(buf)
TestSyncPool ==
  /\ handler = "step0.BenchmarkSyncPool" /\ Fresh
  /\ pc[TestCaller] = "idle"
  /\ \E b \in bufPool \cup {k \in {allocated + 1} : k <= MaxBufs} :
       LET arr == IF b \in bufPool THEN mem[b] ELSE [i \in 1..TextBufSize |-> Zero]
           buf == AppendTo(AppendTo(AppendTo(Slice(arr),
                                       Cells(<<"You are visitor number ">>)),
                                Cells(FormatInt(1))),
                         Cells(<<"!">>))
       IN  /\ mem' = [mem EXCEPT ![b] = buf.back]
           /\ resp' = [resp EXCEPT ![TestCaller] =
                         [code |-> 200, ctype |-> "", body |-> Bytes(SubSeq(buf.a, 1, buf.l))]]
           /\ bufPool' = bufPool \cup {b}
           /\ allocated' = IF b \in bufPool THEN allocated ELSE allocated + 1
  /\ UNCHANGED <<visitors, pc, req, visitNum, now, got, raced, bufp, s1, copied>>
  /\ UNCHANGED <<treq, matched, handler, p, rd, wide, rw>>
  /\ UNCHANGED benchVars

\* the README's pooled handler: buf := bufPool.Get(); defer bufPool.Put(buf);
\* buf.Reset(); three WriteStrings; b := strconv.AppendInt(buf.Bytes(), num, 10);
\* b = append(b, '!'); w.Write(b)
TestPoolHi ==
  /\ handler = "README.bufPool" /\ Fresh
  /\ pc[TestCaller] = "idle"
  /\ visitors < MaxVisitors
  /\ visitors' = visitors + 1
  /\ \E b \in bufPool \cup {k \in {allocated + 1} : k <= MaxBufs} :
       LET arr == IF b \in bufPool THEN mem[b] ELSE <<>>
           buf == WriteString(WriteString(WriteString(Slice(arr),
                                Cells(<<"<h1 style='color: ">>)),
                                Cells(FormValue(treq.color))),
                                Cells(<<">Welcome!</h1>You are visitor number ">>))
           out == AppendTo(AppendTo(buf, Cells(FormatInt(visitors'))), Cells(<<"!">>))
       IN  /\ mem' = [mem EXCEPT ![b] = out.back]
           /\ resp' = [resp EXCEPT ![TestCaller] =
                         [code |-> 200, ctype |-> "", body |-> Bytes(SubSeq(out.a, 1, out.l))]]
           /\ bufPool' = bufPool \cup {b}
           /\ allocated' = IF b \in bufPool THEN allocated ELSE allocated + 1
  /\ UNCHANGED <<pc, req, visitNum, now, got, raced, bufp, s1, copied>>
  /\ UNCHANGED <<treq, matched, handler, p, rd, wide, rw>>
  /\ UNCHANGED benchVars

NextReuse ==
  \/ \E h \in {"stepn.handlePost", "step0.BenchmarkSyncPool", "README.bufPool"} :
       \E r \in ReuseRequests(h) : NewReuse(h, r)
  \/ TestHandlePost
  \/ HandlePostGet(TestCaller)
  \/ CopyBufferRead(TestCaller)
  \/ CopyBufferEnd(TestCaller)
  \/ HandlePostSum(TestCaller)
  \/ TestSyncPool
  \/ TestPoolHi

SpecReuse == Init /\ [][NextReuse]_vars

\* what handlePost answers to a request, told from the request alone
PostAnswer(r) ==
  IF r.method # "PUT" THEN HttpError("Bad method; want PUT", 400)
  ELSE IF r.body.fail THEN HttpError("read error", 500)
  ELSE FprintfPost(Sha1(r.body.bytes), Len(r.body.bytes))

\* C24: whatever earlier requests have left in the pooled buffer, the response
\* written is told by the current request alone: handlePost's digest and count
\* by the request's method and body, the text of BenchmarkSyncPool's handler by
\* nothing at all, the text of the README's pooled handler by the request's
\* color and its visitor number.
C24_NoLeakFromBuffer ==
  (Recorded /\ treq # NoRequest) =>
    /\ handler = "stepn.handlePost" => resp[TestCaller] = PostAnswer(treq)
    /\ handler = "step0.BenchmarkSyncPool" =>
         resp[TestCaller].body = <<"You are visitor number ", "1", "!">>
    /\ handler = "README.bufPool" =>
         resp[TestCaller].body = PoolHiText(FormValue(treq.color), visitors)

\* a one-byte body answered out of a buffer whose second byte is left from an
\* earlier, longer body
C24_Witness ==
  /\ handler = "stepn.handlePost" /\ Recorded
  /\ treq.method = "PUT" /\ ~treq.body.fail /\ treq.body.bytes = <<"a">>
  /\ resp[TestCaller].code = 200
  /\ mem[1][1] = Sha1(<<"a">>)
  /\ mem[1][2] = <<"a">>

\* ------------------------------------------- stepn test: neverEnding.Read
MaxSliceLen == 17


\* copy(dst, src) for dst = q[half:] and src = q, two views of one array:
\* min(len(dst), len(src)) = len(q) - half elements move, each taking the value
\* its source had before the copy
CopyUp(q, half) == [i \in 1..Len(q) |-> IF i > half THEN q[i - half] ELSE q[i]]

\* func (b neverEnding) Read(p []byte): p as the call leaves it
RECURSIVE Read(_, _)
Read(b, q) ==
  IF Len(q) < 16
    THEN [i \in 1..Len(q) |-> b]
    ELSE LET half == Len(q) \div 2
         IN  CopyUp(Read(b, SubSeq(q, 1, half)) \o SubSeq(q, half + 1, Len(q)), half)

\* a slice of some length holding what an earlier use left, and a byte to fill
\* it with, Read not yet called
InitNeverEnding ==
  /\ ServerAtRest
  /\ NoBenchmark
  /\ treq = NoRequest
  /\ matched = NoMatches
  /\ handler = ""
  /\ mem = [k \in 1..MaxBufs |-> [i \in 1..BufSize |-> Zero]]
  /\ p \in {[i \in 1..k |-> x] : k \in 0..MaxSliceLen, x \in {"nul", "y", "z"}}
  /\ rd \in {[NoRead EXCEPT !.b = x] : x \in {"a", "b"}}
  /\ wide = <<>>
  /\ rw = NoRecorder

\* BenchmarkNeverending: n, err := neverEnding(rd.b).Read(p)
NeverEndingRead ==
  /\ rd.n = 0 - 1
  /\ p' = Read(rd.b, p)
  /\ rd' = [rd EXCEPT !.n = Len(p), !.err = "nil"]
  /\ UNCHANGED <<treq, matched, handler, mem, wide, rw>>
  /\ UNCHANGED <<serverVars, benchVars>>

SpecNeverEnding == InitNeverEnding /\ [][NeverEndingRead]_vars

\* the lengths that halve evenly until they fall below 16
RECURSIVE HalvesEvenly(_)
HalvesEvenly(k) == k < 16 \/ (k % 2 = 0 /\ HalvesEvenly(k \div 2))

\* C25 (as claimed): for a slice p of any length, Read returns (len(p), nil)
\* and leaves every element of p equal to b.
C25_FillsEverySlice ==
  rd.n # 0 - 1 =>
    /\ rd.n = Len(p)
    /\ rd.err = "nil"
    /\ \A i \in 1..Len(p) : p[i] = rd.b

\* C25 (what holds): Read always returns (len(p), nil), and leaves every
\* element equal to b when the length halves evenly until it is below 16.
C25_FillsHalvingLengths ==
  rd.n # 0 - 1 =>
    /\ rd.n = Len(p)
    /\ rd.err = "nil"
    /\ HalvesEvenly(Len(p)) => \A i \in 1..Len(p) : p[i] = rd.b

C25_Witness ==
  /\ rd.n = 16
  /\ rd.b = "a"
  /\ p = [i \in 1..16 |-> "a"]

\* ------------------------------- stepn: visitors at the end of int64's range
\* an int64 as four 16-bit limbs, the most significant first, in two's complement
LimbBase == 2^16
MaxInt64 == <<LimbBase \div 2 - 1, LimbBase - 1, LimbBase - 1, LimbBase - 1>>
MinInt64 == <<LimbBase \div 2, 0, 0, 0>>

\* an addition that stays at the largest value
RECURSIVE Add64Saturating(_, _)
Add64Saturating(x, delta) ==
  IF x = MaxInt64 THEN x
  ELSE IF x = <<>> THEN <<>>
  ELSE Add64Saturating(SubSeq(x, 1, Len(x) - 1), (x[Len(x)] + delta) \div LimbBase)
         \o <<(x[Len(x)] + delta) % LimbBase>>

\* atomic.AddInt64(&visitors, delta) on the full width: the sum modulo 2^64,
\* the carry out of the top limb dropped
RECURSIVE Add64(_, _)
Add64(x, delta) ==
  IF x = <<>> THEN <<>>
  ELSE Add64(SubSeq(x, 1, Len(x) - 1), (x[Len(x)] + delta) \div LimbBase)
         \o <<(x[Len(x)] + delta) % LimbBase>>

\* x < y as int64 values
Less64(x, y) ==
  IF (x[1] >= LimbBase \div 2) # (y[1] >= LimbBase \div 2)
    THEN x[1] >= LimbBase \div 2
    ELSE \E i \in 1..Len(x) : x[i] < y[i] /\ \A j \in 1..(i - 1) : x[j] = y[j]

\* visitors somewhere short of a carry: below 2^16, below 2^32, below 2^63
\* (the largest value) or below 2^64 (minus one); nothing returned yet
InitWide ==
  /\ ServerAtRest
  /\ NoBenchmark
  /\ treq = NoRequest
  /\ matched = NoMatches
  /\ handler = ""
  /\ mem = [k \in 1..MaxBufs |-> [i \in 1..BufSize |-> Zero]]
  /\ p = <<>>
  /\ rd = NoRead
  /\ wide \in {[val |-> <<hi, mid, mid, LimbBase - 1 - k>>, rets |-> <<>>] :
                 hi \in {0, LimbBase \div 2 - 1, LimbBase - 1},
                 mid \in {0, LimbBase - 1},
                 k \in 0..MaxVisitors}
  /\ rw = NoRecorder

\* visitNum := atomic.AddInt64(&visitors, 1)
WideAdd ==
  /\ Len(wide.rets) < MaxVisitors
  /\ wide' = [val |-> Add64(wide.val, 1), rets |-> Append(wide.rets, Add64(wide.val, 1))]
  /\ UNCHANGED <<treq, matched, handler, mem, p, rd, rw>>
  /\ UNCHANGED <<serverVars, benchVars>>

SpecWide == InitWide /\ [][WideAdd]_vars

\* C26: the increment at 2^63-1 takes place and gives -2^63: the call returns
\* a value, the counter does not stay at 2^63-1, and the value returned is
\* below the one before it; of two values returned with no 2^63-1 at or
\* between the earlier and the later, the later is the greater, so the values
\* are distinct and increasing up to 2^63-1 and no further.
C26_WrapsAtMaxInt64 ==
  /\ [][(wide.val = MaxInt64 /\ wide' # wide) =>
          /\ Len(wide'.rets) = Len(wide.rets) + 1
          /\ wide'.val = MinInt64
          /\ wide'.rets[Len(wide'.rets)] = MinInt64
          /\ Less64(wide'.val, wide.val)]_vars
  /\ [](wide # <<>> =>
          /\ \A i \in 1..Len(wide.rets) : \A j \in (i + 1)..Len(wide.rets) :
               (\A k \in i..(j - 1) : wide.rets[k] # MaxInt64) =>
                 Less64(wide.rets[i], wide.rets[j])
          /\ \A i \in 1..(Len(wide.rets) - 1) :
               wide.rets[i] = MaxInt64 =>
                 /\ wide.rets[i + 1] = MinInt64
                 /\ ~Less64(wide.rets[i], wide.rets[i + 1]))

C26_Witness ==
  /\ wide # <<>>
  /\ Len(wide.rets) = 3
  /\ wide.rets[2] = MaxInt64
  /\ wide.rets[3] = MinInt64
  /\ wide.val = MinInt64

\* ------------------------------------- README: BenchmarkHi and reset(rw)
\* a ResponseRecorder: its fields, the addresses of its header map and body
\* buffer (whose contents are HeaderMap and Body), and where BenchmarkHi is (at)

\* reset without the loop that deletes the keys of the header map
ResetStepKeepKeys(r) ==
  CASE r.at = "called" -> [r EXCEPT !.at = "deleted"]
    [] r.at = "deleted" -> [r EXCEPT !.Body = <<>>, !.at = "emptied"]
    [] r.at = "emptied" ->
         [Code |-> 0, HeaderMap |-> r.HeaderMap, Body |-> r.Body,
          Flushed |-> FALSE, wroteHeader |-> FALSE,
          HeaderMapAt |-> r.HeaderMapAt, BodyAt |-> r.BodyAt, at |-> "loop"]

\* reset(rw), one statement at a time: for k := range m { delete(m, k) };
\* body.Reset(); *rw = httptest.ResponseRecorder{Body: body, HeaderMap: m}
ResetStep(r) ==
  CASE r.at = "called" -> [r EXCEPT !.HeaderMap = {}, !.at = "deleted"]
    [] r.at = "deleted" -> [r EXCEPT !.Body = <<>>, !.at = "emptied"]
    [] r.at = "emptied" ->
         [Code |-> 0, HeaderMap |-> r.HeaderMap, Body |-> r.Body,
          Flushed |-> FALSE, wroteHeader |-> FALSE,
          HeaderMapAt |-> r.HeaderMapAt, BodyAt |-> r.BodyAt, at |-> "loop"]

\* reset(rw) from its call to its return
reset(r) == ResetStep(ResetStep(ResetStep([r EXCEPT !.at = "called"])))

\* r := req(...); rw := httptest.NewRecorder(): Code 200, an empty header map
\* and an empty body buffer, both newly made
InitBenchHi ==
  /\ ServerAtRest
  /\ NoBenchmark
  /\ treq \in ColorRequests
  /\ matched = NoMatches
  /\ handler = ""
  /\ mem = [k \in 1..MaxBufs |-> [i \in 1..BufSize |-> Zero]]
  /\ p = <<>>
  /\ rd = NoRead
  /\ wide = <<>>
  /\ rw = [Code |-> 200, HeaderMap |-> {}, Body |-> <<>>, Flushed |-> FALSE,
           wroteHeader |-> FALSE, HeaderMapAt |-> 1, BodyAt |-> 1, at |-> "loop"]

\* handleHi(rw, r) on the recorder: http.Error or w.Header().Set sets the
\* Content-Type in the header map, then the first Write fixes the status code
\* and the body buffer takes the text
BenchHiCall ==
  /\ rw.at \in {"loop", "set"}
  /\ LET ok == colorRx(FormValue(treq.color))
         out == IF ok THEN WriteHi(FormValue(treq.color), visitors)
                      ELSE HttpError("Optional color is invalid", 400)
     IN  IF rw.at = "loop"
           THEN /\ visitors < MaxVisitors
                /\ visitors' = IF ok THEN visitors + 1 ELSE visitors
                /\ rw' = [rw EXCEPT
                            !.HeaderMap = {kv \in @ : kv[1] # "Content-Type"}
                                            \cup {<<"Content-Type", out.ctype>>},
                            !.at = "set"]
           ELSE /\ rw' = [rw EXCEPT
                            !.Code = IF rw.wroteHeader THEN @ ELSE out.code,
                            !.wroteHeader = TRUE,
                            !.Body = @ \o out.body,
                            !.at = "called"]
                /\ UNCHANGED visitors
  /\ UNCHANGED <<pc, req, visitNum, now, resp, got, bufPool, allocated, bufp, s1, copied, raced>>
  /\ UNCHANGED <<treq, matched, handler, mem, p, rd, wide>>
  /\ UNCHANGED benchVars

\* reset(rw), its next statement
BenchHiReset ==
  /\ rw.at \in {"called", "deleted", "emptied"}
  /\ rw' = ResetStep(rw)
  /\ UNCHANGED <<treq, matched, handler, mem, p, rd, wide>>
  /\ UNCHANGED <<serverVars, benchVars>>

SpecBenchHi == InitBenchHi /\ [][BenchHiCall \/ BenchHiReset]_vars

\* C27 (as claimed): reset returns the recorder to the state of a fresh one,
\* so that every iteration of the benchmark starts from the state
\* httptest.NewRecorder() made.
C27_ResetToFreshRecorder ==
  (rw # NoRecorder /\ rw.at = "loop") =>
    /\ rw.Code = 200
    /\ rw.HeaderMap = {} /\ rw.Body = <<>>
    /\ ~rw.Flushed /\ ~rw.wroteHeader
    /\ rw.HeaderMapAt = 1 /\ rw.BodyAt = 1

\* C27 (what holds): reset leaves a recorder with no headers, an empty body,
\* Code 0 and both flags false, over the same header map and body buffer; it
\* is idempotent; and every step that arrives at the head of the benchmark's
\* loop arrives in that state, so every iteration but the first starts from it.
C27_ResetToZeroRecorder ==
  /\ [](rw # NoRecorder =>
          /\ reset(rw) = [Code |-> 0, HeaderMap |-> {}, Body |-> <<>>,
                          Flushed |-> FALSE, wroteHeader |-> FALSE,
                          HeaderMapAt |-> rw.HeaderMapAt, BodyAt |-> rw.BodyAt,
                          at |-> "loop"]
          /\ reset(reset(rw)) = reset(rw)
          /\ rw.HeaderMapAt = 1 /\ rw.BodyAt = 1)
  /\ [][(rw' # rw /\ rw'.at = "loop") =>
          /\ rw.at = "emptied"
          /\ rw' = reset(rw)
          /\ rw'.Code = 0 /\ rw'.HeaderMap = {} /\ rw'.Body = <<>>]_vars

\* the second iteration's handleHi has written into the recorder reset once
C27_Witness ==
  /\ rw # NoRecorder
  /\ rw.at = "called"
  /\ visitors = 2
  /\ rw.Code = 200
  /\ rw.Body = WriteHi(FormValue(treq.color), 2).body
  /\ Cardinality(rw.HeaderMap) = 1

====
